---- MODULE Spec2Model ----
(***************************************************************************)
(* Verification model of the mex-hal core: the resource registry           *)
(* (ResourceManager and ResourceGuard), the event dispatcher               *)
(* (CallbackManager) and the timer engine (TimerLinux).                    *)
(***************************************************************************)
EXTENDS Integers, Sequences, FiniteSets, TLC

(***************************************************************************)
(* Bounds of the model.                                                    *)
(***************************************************************************)
MaxResources == 2
MaxRefCount == 2
MaxSurplus == 1
MaxGuards == 2

\* refCount is a std::atomic<uint32_t>; the counts of the model stay below
\* MaxRefCount, far from the point where it wraps.

ResourceIds == 0 .. (MaxResources + 1)
GuardIds == 1 .. MaxGuards

VARIABLES
    resources,        \* resources_ : id -> [refCount, inUse]
    nextResourceId,   \* nextResourceId_
    guards,           \* the ResourceGuard objects: [live, resourceId, valid_]
    lastOp,           \* history: the last registry call and what it returned
    refLog,           \* history: per record, addRef minus release calls, releases at 0
    issued            \* history: the ids registerResource returned, in order

registryVars == <<resources, nextResourceId, guards, lastOp, refLog, issued>>

VARIABLES
    callbacks,        \* per domain, gpioCallbacks_ / timerCallbacks_ : id -> [key, callback]
    callbacksByKey,   \* per domain, gpioCallbacksByPin_ / timerCallbacksById_ : key -> ids
    nextCallbackId,   \* nextCallbackId_
    sharedMutex,      \* per domain, the threads that hold a shared_lock on
                      \* gpioCallbackMutex_ / timerCallbackMutex_
    invoker,          \* the threads inside invokeGPIOCallback / invokeTimerCallback
    clearPc,          \* where the thread inside CallbackManager::clearAll is
    regOrder,         \* history: the subscription ids in the order of their registration
    clearMark,        \* history: nextCallbackId_ when the last clearAll was called
    lastUnregister    \* history: what the last unregister returned to a caller that
                      \* looks at the result

dispatcherVars == <<callbacks, callbacksByKey, nextCallbackId, sharedMutex, invoker,
                    clearPc, regOrder, clearMark, lastUnregister>>

VARIABLES
    mode,             \* TimerLinux::mode
    intervalUs,       \* TimerLinux::intervalUs
    running,          \* TimerLinux::running
    shouldStop,       \* TimerLinux::shouldStop
    timerThread,      \* TimerLinux::timerThread: 0, or the thread it can join
    callback,         \* TimerLinux::callback
    startTime,        \* TimerLinux::startTime
    callbackMutex,    \* TimerLinux::callbackMutex: 0, or the thread that holds it
    threads,          \* the threads that run timerLoop, in the order of their creation
    nextThread,       \* the number of the next thread to be created
    caller,           \* the threads that call the timer's interface
    crashed,          \* std::terminate was called
    now               \* steady_clock::now()

timerVars == <<mode, intervalUs, running, shouldStop, timerThread, callback,
               startTime, callbackMutex, threads, nextThread, caller, crashed, now>>

VARIABLES
    worker            \* the threads of a program that registers resources concurrently

workerVars == <<worker>>

VARIABLES
    pins,             \* GPIOLinux::pins_ : pin -> PinInfo
    interruptThreads, \* GPIOLinux::interruptThreads_ : pin -> 0, or the thread it owns
    shutdownRequested,\* GPIOLinux::shutdownRequested_
    watcher,          \* the threads that run monitorInterrupt, in the order of their creation
    nextWatcher,      \* the number of the next thread to be created
    destructor,       \* where ~GPIOLinux is, the threads it joined, the pins it cleaned up
    terminated        \* std::terminate was called by the GPIO backend

gpioVars == <<pins, interruptThreads, shutdownRequested, watcher, nextWatcher,
              destructor, terminated>>

VARIABLES
    device            \* the ADC, SPI, I2C, UART and PWM backends of every owner:
                      \* where each object is in its life, and its resourceId_

deviceVars == <<device>>

VARIABLES
    running_,         \* HALStateEngine::running_
    stopRequested_,   \* HALStateEngine::stopRequested_
    worker_,          \* HALStateEngine::worker_ : 0, or the thread it can join
    engineThreads,    \* the threads that run engineLoop, in the order of their creation
    nextEngineThread, \* the number of the next thread to be created
    client,           \* the threads that call the engine's interface
    engineTerminated  \* std::terminate was called by the state engine

engineVars == <<running_, stopRequested_, worker_, engineThreads, nextEngineThread,
                client, engineTerminated>>

VARIABLES
    resourceUsages_,  \* ResourceVisualizer::resourceUsages_
    gather            \* the thread inside gatherResourceData: where it is, and its
                      \* locals count, id and info

visualizerVars == <<resourceUsages_, gather>>

vars == <<registryVars, dispatcherVars, timerVars, workerVars, gpioVars, deviceVars,
          engineVars, visualizerVars>>

RegistryFrame ==
    UNCHANGED <<dispatcherVars, timerVars, workerVars, gpioVars, deviceVars, engineVars,
                visualizerVars>>
DispatcherFrame ==
    UNCHANGED <<registryVars, timerVars, workerVars, gpioVars, deviceVars, engineVars,
                visualizerVars>>
TimerFrame ==
    UNCHANGED <<registryVars, dispatcherVars, workerVars, gpioVars, deviceVars, engineVars,
                visualizerVars>>

(***************************************************************************)
(* ResourceManager                                                         *)
(***************************************************************************)
Known(id) == id \in DOMAIN resources

NoOp == [op |-> "none", id |-> 0, ok |-> FALSE, val |-> 0, before |-> 0]

Call(op, id, ok, val, before) ==
    [op |-> op, id |-> id, ok |-> ok, val |-> val, before |-> before]

RefCountOf(id) == IF Known(id) THEN resources[id].refCount ELSE 0

\* an erase that leaves the map as it is
Erase_m(res, id) == res

\* the map after resources_.erase(it)
Erase(res, id) == [i \in (DOMAIN res) \ {id} |-> res[i]]

RegistryInit ==
    /\ resources = << >>
    /\ nextResourceId = 1
    /\ guards = [g \in GuardIds |-> [live |-> FALSE, resourceId |-> 0, valid |-> FALSE]]
    /\ lastOp = NoOp
    /\ refLog = << >>
    /\ issued = << >>

\* a registry that numbers its records by their count
FreshId_m == Cardinality(DOMAIN resources) + 1

\* a registry that hands out the value of the counter it read before the
\* last increment
FreshId_stale == IF nextResourceId > 1 THEN nextResourceId - 1 ELSE nextResourceId

\* nextResourceId_.fetch_add(1): the id handed out
FreshId == nextResourceId

\* registerResource, what it does to the registry
registerResource_call ==
    /\ nextResourceId <= MaxResources
    /\ LET resourceId == FreshId
       IN /\ nextResourceId' = nextResourceId + 1
          /\ resources' = [i \in (DOMAIN resources) \cup {resourceId} |->
                             IF i = resourceId
                             THEN [refCount |-> 1, inUse |-> FALSE]
                             ELSE resources[i]]
          /\ refLog' = [i \in (DOMAIN resources) \cup {resourceId} |->
                             IF i = resourceId
                             THEN [balance |-> 0, relOnZero |-> 0]
                             ELSE refLog[i]]
          /\ lastOp' = Call("register", resourceId, TRUE, resourceId, 0)
          /\ issued' = Append(issued, resourceId)
    /\ UNCHANGED guards

registerResource == registerResource_call /\ RegistryFrame

\* an unregister that does not look at the reference count
UnregisterAllowed_m(id) == Known(id)

UnregisterAllowed(id) == Known(id) /\ ~(resources[id].refCount > 0)

\* unregisterResource, what it does to the registry
unregisterResource_call(id) ==
    /\ IF UnregisterAllowed(id)
       THEN /\ resources' = Erase(resources, id)
            /\ refLog' = Erase(refLog, id)
            /\ lastOp' = Call("unregister", id, TRUE, 0, RefCountOf(id))
       ELSE /\ UNCHANGED <<resources, refLog>>
            /\ lastOp' = Call("unregister", id, FALSE, 0, RefCountOf(id))
    /\ UNCHANGED <<nextResourceId, guards, issued>>

unregisterResource(id) == unregisterResource_call(id) /\ RegistryFrame

\* an addRef that returns what fetch_add returned
AddRefValue_m(id) == IF Known(id) THEN resources[id].refCount ELSE 0

\* the value addRef returns, and the map it leaves
AddRefValue(id) == IF Known(id) THEN resources[id].refCount + 1 ELSE 0

AddRefMap(id) ==
    IF Known(id)
    THEN [resources EXCEPT ![id].refCount = @ + 1]
    ELSE resources

AddRefLog(id) ==
    IF Known(id) THEN [refLog EXCEPT ![id].balance = @ + 1] ELSE refLog

\* a release that does not test the count for 0
ReleaseValue_m(id) == IF Known(id) THEN resources[id].refCount - 1 ELSE 0

\* the value release returns, and the map it leaves
ReleaseValue(id) ==
    IF Known(id) /\ resources[id].refCount # 0
    THEN resources[id].refCount - 1
    ELSE 0

ReleaseMap(id) ==
    IF Known(id) /\ resources[id].refCount # 0
    THEN [resources EXCEPT ![id].refCount = @ - 1]
    ELSE resources

ReleaseLog(id) ==
    IF Known(id)
    THEN [refLog EXCEPT ![id].balance = @ - 1,
                        ![id].relOnZero =
                            IF resources[id].refCount = 0 THEN @ + 1 ELSE @]
    ELSE refLog

\* the model stops calling addRef at MaxRefCount references, and release
\* after MaxSurplus releases of a count that is already 0
CanAddRef(id) == Known(id) => resources[id].refCount < MaxRefCount
CanRelease(id) ==
    (Known(id) /\ resources[id].refCount = 0) => refLog[id].relOnZero < MaxSurplus

\* addRef, what it does to the registry
addRef_call(id) ==
    /\ CanAddRef(id)
    /\ resources' = AddRefMap(id)
    /\ refLog' = AddRefLog(id)
    /\ lastOp' = Call("addRef", id, Known(id), AddRefValue(id), RefCountOf(id))
    /\ UNCHANGED <<nextResourceId, guards, issued>>

addRef(id) == addRef_call(id) /\ RegistryFrame

\* release, what it does to the registry
release_call(id) ==
    /\ CanRelease(id)
    /\ resources' = ReleaseMap(id)
    /\ refLog' = ReleaseLog(id)
    /\ lastOp' = Call("release", id, Known(id), ReleaseValue(id), RefCountOf(id))
    /\ UNCHANGED <<nextResourceId, guards, issued>>

release(id) == release_call(id) /\ RegistryFrame

\* a setInUse that takes a reference when it marks a record as used
setInUse_call_m(id, inUse) ==
    /\ resources' = IF Known(id)
                    THEN [resources EXCEPT ![id].inUse = inUse,
                                           ![id].refCount = IF inUse THEN 1 ELSE @]
                    ELSE resources
    /\ lastOp' = Call("setInUse", id, Known(id), 0, RefCountOf(id))
    /\ UNCHANGED <<nextResourceId, guards, refLog, issued>>

\* setInUse, what it does to the registry
setInUse_call(id, inUse) ==
    /\ resources' = IF Known(id)
                    THEN [resources EXCEPT ![id].inUse = inUse]
                    ELSE resources
    /\ lastOp' = Call("setInUse", id, Known(id), 0, RefCountOf(id))
    /\ UNCHANGED <<nextResourceId, guards, refLog, issued>>

setInUse(id, inUse) == setInUse_call(id, inUse) /\ RegistryFrame

\* history: how many of the records still have references
Referenced == Cardinality({i \in DOMAIN resources : resources[i].refCount > 0})

ResourceManager_clearAll ==
    /\ resources' = << >>
    /\ refLog' = << >>
    /\ lastOp' = Call("clearAll", 0, TRUE, Referenced, 0)
    /\ UNCHANGED <<nextResourceId, guards, issued>>
    /\ RegistryFrame

(***************************************************************************)
(* Threads that use the registry concurrently, as the ThreadSafety test    *)
(***************************************************************************)
MaxWorkers == 2

Workers == 1 .. MaxWorkers

NewWorker == [pc |-> "register", id |-> 0, got |-> << >>]

WorkerInit == worker = [w \in Workers |-> NewWorker]

\* uint64_t id = rm.registerResource(...)
WorkerRegister(w) ==
    /\ worker[w].pc = "register"
    /\ registerResource_call
    /\ worker' = [worker EXCEPT ![w].pc = "addRef", ![w].id = FreshId]
    /\ UNCHANGED <<dispatcherVars, timerVars, gpioVars, deviceVars, engineVars, visualizerVars>>

\* rm.addRef(id)
WorkerAddRef(w) ==
    /\ worker[w].pc = "addRef"
    /\ addRef_call(worker[w].id)
    /\ worker' = [worker EXCEPT ![w].pc = "setInUse"]
    /\ UNCHANGED <<dispatcherVars, timerVars, gpioVars, deviceVars, engineVars, visualizerVars>>

\* rm.setInUse(id, true)
WorkerSetInUse(w) ==
    /\ worker[w].pc = "setInUse"
    /\ setInUse_call(worker[w].id, TRUE)
    /\ worker' = [worker EXCEPT ![w].pc = "release"]
    /\ UNCHANGED <<dispatcherVars, timerVars, gpioVars, deviceVars, engineVars, visualizerVars>>

\* rm.release(id), the end of one turn of the loop
WorkerRelease(w) ==
    /\ worker[w].pc = "release"
    /\ release_call(worker[w].id)
    /\ worker' = [worker EXCEPT ![w].pc = "register",
                                ![w].got = Append(@, worker[w].id)]
    /\ UNCHANGED <<dispatcherVars, timerVars, gpioVars, deviceVars, engineVars, visualizerVars>>

\* the loop of the thread ends and the thread is joined
WorkerJoin(w) ==
    /\ worker[w].pc = "register"
    /\ worker' = [worker EXCEPT ![w].pc = "joined"]
    /\ UNCHANGED <<registryVars, dispatcherVars, timerVars, gpioVars, deviceVars,
                   engineVars, visualizerVars>>

(***************************************************************************)
(* ResourceGuard                                                           *)
(***************************************************************************)
Owns(g) == guards[g].live /\ guards[g].valid /\ guards[g].resourceId # 0

\* ResourceGuard(resourceId): a dead slot becomes a live guard
ResourceGuard_ctor(g, id) ==
    /\ ~guards[g].live
    /\ guards' = [guards EXCEPT ![g] = [live |-> TRUE, resourceId |-> id, valid |-> TRUE]]
    /\ IF id # 0
       THEN /\ resources' = AddRefMap(id)
            /\ refLog' = AddRefLog(id)
       ELSE UNCHANGED <<resources, refLog>>
    /\ lastOp' = Call("guardCtor", id, Known(id), 0, RefCountOf(id))
    /\ UNCHANGED <<nextResourceId, issued>>
    /\ RegistryFrame

\* does the destructor (or the move assignment) give the reference back?
GuardReleases(g) == guards[g].valid /\ guards[g].resourceId # 0

ResourceGuard_dtor(g) ==
    /\ guards[g].live
    /\ guards' = [guards EXCEPT ![g] = [live |-> FALSE, resourceId |-> 0, valid |-> FALSE]]
    /\ IF GuardReleases(g)
       THEN /\ resources' = ReleaseMap(guards[g].resourceId)
            /\ refLog' = ReleaseLog(guards[g].resourceId)
       ELSE UNCHANGED <<resources, refLog>>
    /\ lastOp' = Call("guardDtor", guards[g].resourceId, TRUE, 0,
                      RefCountOf(guards[g].resourceId))
    /\ UNCHANGED <<nextResourceId, issued>>
    /\ RegistryFrame

\* a move that leaves the moved-from guard as it was
MovedFromValid_m(other) == guards[other].valid

\* the valid_ flag the moved-from guard is left with
MovedFromValid(other) == FALSE

\* ResourceGuard(ResourceGuard&& other): g is constructed from other
ResourceGuard_move(g, other) ==
    /\ ~guards[g].live
    /\ guards[other].live
    /\ guards' = [guards EXCEPT
                    ![g] = [live |-> TRUE,
                            resourceId |-> guards[other].resourceId,
                            valid |-> guards[other].valid],
                    ![other].valid = MovedFromValid(other)]
    /\ lastOp' = Call("guardMove", guards[other].resourceId, TRUE, 0,
                      RefCountOf(guards[other].resourceId))
    /\ UNCHANGED <<resources, refLog, nextResourceId, issued>>
    /\ RegistryFrame

\* operator=(ResourceGuard&& other)
ResourceGuard_moveAssign(g, other) ==
    /\ guards[g].live
    /\ guards[other].live
    /\ IF g # other
       THEN /\ IF GuardReleases(g)
               THEN /\ resources' = ReleaseMap(guards[g].resourceId)
                    /\ refLog' = ReleaseLog(guards[g].resourceId)
               ELSE UNCHANGED <<resources, refLog>>
            /\ guards' = [guards EXCEPT
                            ![g].resourceId = guards[other].resourceId,
                            ![g].valid = guards[other].valid,
                            ![other].valid = MovedFromValid(other)]
       ELSE UNCHANGED <<resources, refLog, guards>>
    /\ lastOp' = Call("guardAssign", guards[g].resourceId, TRUE, 0,
                      RefCountOf(guards[g].resourceId))
    /\ UNCHANGED <<nextResourceId, issued>>
    /\ RegistryFrame

(***************************************************************************)
(* CallbackManager                                                         *)
(***************************************************************************)
MaxCallbacks == 3
MaxWatchers == 2

Domains == {"gpio", "timer"}
Keys == {1, 2}

\* the threads that call invoke; a nested invoke of a handler is one more
Invokers == 1 .. MaxWatchers

\* the callback values: a handler and the empty std::function
Handlers == {"f"}
Empty == "empty"

IdleInvoker ==
    [pc |-> "idle", dom |-> "gpio", key |-> 0, callbackIds |-> << >>,
     idx |-> 0, fn |-> Empty, calls |-> << >>, dirty |-> FALSE]

NoUnregister == [dom |-> "none", id |-> 0, ok |-> FALSE]

DispatcherInit ==
    /\ callbacks = [d \in Domains |-> << >>]
    /\ callbacksByKey = [d \in Domains |-> << >>]
    /\ nextCallbackId = 1
    /\ sharedMutex = [d \in Domains |-> {}]
    /\ invoker = [t \in Invokers |-> IdleInvoker]
    /\ clearPc = "idle"
    /\ regOrder = << >>
    /\ clearMark = 1
    /\ lastUnregister = NoUnregister

\* a map assignment that forgets the other entries
Put_m(map, k, v) == [x \in {k} |-> v]

\* map[k] = v
Put(map, k, v) == [x \in (DOMAIN map) \cup {k} |-> IF x = k THEN v ELSE map[x]]

\* map[k], which is a new empty vector when the map has no k
ListOf(map, k) == IF k \in DOMAIN map THEN map[k] ELSE << >>

\* a registration that puts the new id in front
PushBack_m(ids, callbackId) == <<callbackId>> \o ids

\* vector::push_back
PushBack(ids, callbackId) == Append(ids, callbackId)

\* an unregister that leaves the id in the list of its key
Remove_m(ids, callbackId) == ids

\* callbacks.erase(std::remove(begin, end, callbackId), end)
Remove(ids, callbackId) == SelectSeq(ids, LAMBDA x : x # callbackId)

\* std::unique_lock on the mutex of domain d: no shared_lock is held
CanLockUnique(d) == sharedMutex[d] = {}

\* history: the invocations in flight in domain d saw the tables change
Touched(d) ==
    [t \in Invokers |->
        IF invoker[t].pc # "idle" /\ invoker[t].dom = d
        THEN [invoker[t] EXCEPT !.dirty = TRUE]
        ELSE invoker[t]]

\* registerGPIOCallback / registerTimerCallback, one critical section
Register_call(d, key, cb) ==
    /\ nextCallbackId <= MaxCallbacks
    /\ CanLockUnique(d)
    /\ LET callbackId == nextCallbackId
       IN /\ nextCallbackId' = nextCallbackId + 1
          /\ callbacks' = [callbacks EXCEPT
                ![d] = Put(@, callbackId, [key |-> key, callback |-> cb])]
          /\ callbacksByKey' = [callbacksByKey EXCEPT
                ![d] = Put(@, key, PushBack(ListOf(@, key), callbackId))]
          /\ regOrder' = Append(regOrder, callbackId)
    /\ invoker' = Touched(d)
    /\ lastUnregister' = NoUnregister
    /\ UNCHANGED <<sharedMutex, clearPc, clearMark>>

Register(d, key, cb) == Register_call(d, key, cb) /\ DispatcherFrame

registerGPIOCallback(pin, cb) == Register("gpio", pin, cb)

registerTimerCallback(timerId, cb) == Register("timer", timerId, cb)

\* unregisterGPIOCallback / unregisterTimerCallback, one critical section;
\* kept says whether the caller looks at what is returned
Unregister_call(d, callbackId, kept) ==
    /\ CanLockUnique(d)
    /\ IF callbackId \notin DOMAIN callbacks[d]
       THEN /\ UNCHANGED <<callbacks, callbacksByKey, invoker>>
            /\ lastUnregister' = IF kept
                                 THEN [dom |-> d, id |-> callbackId, ok |-> FALSE]
                                 ELSE NoUnregister
       ELSE LET key == callbacks[d][callbackId].key
                remaining == Remove(ListOf(callbacksByKey[d], key), callbackId)
            IN /\ callbacks' = [callbacks EXCEPT ![d] = Erase(@, callbackId)]
               /\ callbacksByKey' = [callbacksByKey EXCEPT
                     ![d] = IF remaining = << >>
                            THEN Erase(@, key)
                            ELSE Put(@, key, remaining)]
               /\ invoker' = Touched(d)
               /\ lastUnregister' = IF kept
                                    THEN [dom |-> d, id |-> callbackId, ok |-> TRUE]
                                    ELSE NoUnregister
    /\ UNCHANGED <<nextCallbackId, sharedMutex, clearPc, regOrder, clearMark>>

Unregister(d, callbackId) == Unregister_call(d, callbackId, TRUE) /\ DispatcherFrame

unregisterGPIOCallback(callbackId) == Unregister("gpio", callbackId)

unregisterTimerCallback(callbackId) == Unregister("timer", callbackId)

\* an unregister whose result the caller ignores
Unregister_ignored(d, callbackId) ==
    Unregister_call(d, callbackId, FALSE) /\ DispatcherFrame

\* a copy that takes the first id of the list only
Snapshot_m(d, key) == SubSeq(callbacksByKey[d][key], 1, 1)

\* const std::vector<uint64_t> callbackIds = it->second
Snapshot(d, key) == callbacksByKey[d][key]

\* invoke, first critical section: find the key and copy its id list
InvokeBegin_call(t, d, key) ==
    /\ invoker[t].pc = "idle"
    /\ invoker' = [invoker EXCEPT ![t] =
          IF key \notin DOMAIN callbacksByKey[d]
          THEN [IdleInvoker EXCEPT !.pc = "done", !.dom = d, !.key = key]
          ELSE [IdleInvoker EXCEPT !.pc = "loop", !.dom = d, !.key = key,
                                   !.callbackIds = Snapshot(d, key),
                                   !.idx = 1]]
    /\ lastUnregister' = NoUnregister
    /\ UNCHANGED <<callbacks, callbacksByKey, nextCallbackId, sharedMutex, clearPc,
                   regOrder, clearMark>>

InvokeBegin(t, d, key) == InvokeBegin_call(t, d, key) /\ DispatcherFrame

invokeGPIOCallback(t, pin) == InvokeBegin(t, "gpio", pin)

invokeTimerCallback(t, timerId) == InvokeBegin(t, "timer", timerId)

\* callbackIt != end() && callbackIt->second.callback
Callable(d, callbackId) ==
    /\ callbackId \in DOMAIN callbacks[d]
    /\ callbacks[d][callbackId].callback # Empty

\* invoke, one turn of the loop: callbackLock is taken and the id looked up;
\* a callable one is copied with the lock still held, for any other the lock
\* is given back at the end of the turn
InvokeLookup(t) ==
    /\ invoker[t].pc = "loop"
    /\ LET me == invoker[t]
       IN IF me.idx > Len(me.callbackIds)
          THEN /\ invoker' = [invoker EXCEPT ![t] = [me EXCEPT !.pc = "done"]]
               /\ UNCHANGED sharedMutex
          ELSE IF Callable(me.dom, me.callbackIds[me.idx])
               THEN /\ invoker' = [invoker EXCEPT ![t] =
                          [me EXCEPT !.pc = "copied",
                              !.fn = callbacks[me.dom][me.callbackIds[me.idx]].callback]]
                    /\ sharedMutex' = [sharedMutex EXCEPT ![me.dom] = @ \cup {t}]
               ELSE /\ invoker' = [invoker EXCEPT ![t] = [me EXCEPT !.idx = @ + 1]]
                    /\ UNCHANGED sharedMutex
    /\ lastUnregister' = NoUnregister
    /\ UNCHANGED <<callbacks, callbacksByKey, nextCallbackId, clearPc, regOrder,
                   clearMark>>
    /\ DispatcherFrame

\* an invoke that keeps callbackLock while the handler runs
Unlocked_m(holders, t) == holders

\* callbackLock.unlock()
Unlocked(holders, t) == holders \ {t}

\* invoke, the lock is given back before the copied callback is called
InvokeUnlock(t) ==
    /\ invoker[t].pc = "copied"
    /\ invoker' = [invoker EXCEPT ![t].pc = "call"]
    /\ sharedMutex' = [sharedMutex EXCEPT ![invoker[t].dom] = Unlocked(@, t)]
    /\ lastUnregister' = NoUnregister
    /\ UNCHANGED <<callbacks, callbacksByKey, nextCallbackId, clearPc, regOrder,
                   clearMark>>
    /\ DispatcherFrame

\* invoke, callback(pin, value) / callback(): the handler begins to execute
InvokeCall(t) ==
    /\ invoker[t].pc = "call"
    /\ LET me == invoker[t]
       IN invoker' = [invoker EXCEPT ![t] =
            [me EXCEPT !.pc = "running",
                       !.calls = Append(@, [id |-> me.callbackIds[me.idx], fn |-> me.fn])]]
    /\ lastUnregister' = NoUnregister
    /\ UNCHANGED <<callbacks, callbacksByKey, nextCallbackId, sharedMutex, clearPc,
                   regOrder, clearMark>>
    /\ DispatcherFrame

\* invoke, the handler returns and the loop goes on with the next id
HandlerReturn(t) ==
    /\ invoker[t].pc = "running"
    /\ invoker' = [invoker EXCEPT ![t] =
            [@ EXCEPT !.pc = "loop", !.fn = Empty, !.idx = @ + 1]]
    /\ lastUnregister' = NoUnregister
    /\ UNCHANGED <<callbacks, callbacksByKey, nextCallbackId, sharedMutex, clearPc,
                   regOrder, clearMark>>
    /\ DispatcherFrame

\* invoke returns to its caller
InvokeReturn_call(t) ==
    /\ invoker[t].pc = "done"
    /\ invoker' = [invoker EXCEPT ![t] = IdleInvoker]
    /\ lastUnregister' = NoUnregister
    /\ UNCHANGED <<callbacks, callbacksByKey, nextCallbackId, sharedMutex, clearPc,
                   regOrder, clearMark>>

InvokeReturn(t) == InvokeReturn_call(t) /\ DispatcherFrame

\* clearAll, first critical section (gpioCallbackMutex_)
CallbackManager_clearAll_gpio ==
    /\ clearPc = "idle"
    /\ CanLockUnique("gpio")
    /\ clearPc' = "timer"
    /\ clearMark' = nextCallbackId
    /\ callbacks' = [callbacks EXCEPT !["gpio"] = << >>]
    /\ callbacksByKey' = [callbacksByKey EXCEPT !["gpio"] = << >>]
    /\ invoker' = Touched("gpio")
    /\ lastUnregister' = NoUnregister
    /\ UNCHANGED <<nextCallbackId, sharedMutex, regOrder>>
    /\ DispatcherFrame

\* a clearAll that forgets timerCallbacks_.clear()
CallbackManager_clearAll_timer_m ==
    /\ clearPc = "timer"
    /\ CanLockUnique("timer")
    /\ clearPc' = "idle"
    /\ callbacksByKey' = [callbacksByKey EXCEPT !["timer"] = << >>]
    /\ invoker' = Touched("timer")
    /\ lastUnregister' = NoUnregister
    /\ UNCHANGED <<callbacks, nextCallbackId, sharedMutex, regOrder, clearMark>>
    /\ DispatcherFrame

\* clearAll, second critical section (timerCallbackMutex_), and the return
CallbackManager_clearAll_timer ==
    /\ clearPc = "timer"
    /\ CanLockUnique("timer")
    /\ clearPc' = "idle"
    /\ callbacks' = [callbacks EXCEPT !["timer"] = << >>]
    /\ callbacksByKey' = [callbacksByKey EXCEPT !["timer"] = << >>]
    /\ invoker' = Touched("timer")
    /\ lastUnregister' = NoUnregister
    /\ UNCHANGED <<nextCallbackId, sharedMutex, regOrder, clearMark>>
    /\ DispatcherFrame

(***************************************************************************)
(* TimerLinux                                                              *)
(***************************************************************************)
MaxThreads == 2
MaxTime == 3

Intervals == {1, 2}
Callers == {1, 2}
ThreadIds == 1 .. MaxThreads

NoThread ==
    [pc |-> "unborn", nextTick |-> 0, wakeAt |-> 0, fired |-> 0,
     oneShot |-> FALSE, armed |-> FALSE, stopSeen |-> FALSE]

\* what is kept of a thread that was joined
JoinedThread(th) == [NoThread EXCEPT !.pc = "joined", !.stopSeen = th.stopSeen]

IdleCaller ==
    [pc |-> "idle", interval |-> 0, cb |-> Empty, target |-> 0,
     op |-> "none", ok |-> FALSE]

Returned(op, ok) == [IdleCaller EXCEPT !.op = op, !.ok = ok]

TimerInit ==
    /\ mode = "ONE_SHOT"
    /\ intervalUs = 0
    /\ running = FALSE
    /\ shouldStop = FALSE
    /\ timerThread = 0
    /\ callback = Empty
    /\ startTime = 0
    /\ callbackMutex = 0
    /\ threads = [t \in ThreadIds |-> NoThread]
    /\ nextThread = 1
    /\ caller = [c \in Callers |-> IdleCaller]
    /\ crashed = FALSE
    /\ now = 0

\* a thread that is executing timerLoop
Alive(th) == th.pc \notin {"unborn", "done", "joined"}

AliveThreads == {t \in ThreadIds : Alive(threads[t])}

\* the clock advances
Tick ==
    /\ ~crashed
    /\ now < MaxTime
    /\ now' = now + 1
    /\ UNCHANGED <<mode, intervalUs, running, shouldStop, timerThread, callback,
                   startTime, callbackMutex, threads, nextThread, caller, crashed>>
    /\ TimerFrame

\* init(timerMode)
init(c, timerMode) ==
    /\ ~crashed
    /\ caller[c].pc = "idle"
    /\ mode' = timerMode
    /\ caller' = [caller EXCEPT ![c] = Returned("init", TRUE)]
    /\ threads' = [t \in ThreadIds |->
                      IF Alive(threads[t]) /\ timerMode # "ONE_SHOT"
                      THEN [threads[t] EXCEPT !.oneShot = FALSE]
                      ELSE threads[t]]
    /\ UNCHANGED <<intervalUs, running, shouldStop, timerThread, callback,
                   startTime, callbackMutex, nextThread, crashed, now>>
    /\ TimerFrame

\* start, the test of the running flag
StartBegin(c, interval, cb) ==
    /\ ~crashed
    /\ caller[c].pc = "idle"
    /\ nextThread <= MaxThreads
    /\ caller' = [caller EXCEPT ![c] =
          IF running
          THEN [IdleCaller EXCEPT !.pc = "refused"]
          ELSE [IdleCaller EXCEPT !.pc = "starting", !.interval = interval, !.cb = cb]]
    /\ UNCHANGED <<mode, intervalUs, running, shouldStop, timerThread, callback,
                   startTime, callbackMutex, threads, nextThread, crashed, now>>
    /\ TimerFrame

\* start, return false
StartRefused(c) ==
    /\ ~crashed
    /\ caller[c].pc = "refused"
    /\ caller' = [caller EXCEPT ![c] = Returned("start", FALSE)]
    /\ UNCHANGED <<mode, intervalUs, running, shouldStop, timerThread, callback,
                   startTime, callbackMutex, threads, nextThread, crashed, now>>
    /\ TimerFrame

\* the thread std::thread(&TimerLinux::timerLoop, this) creates
Spawned(cb) ==
    [NoThread EXCEPT !.pc = "init",
                     !.oneShot = (mode = "ONE_SHOT"),
                     !.armed = (cb # Empty)]

\* timerThread = std::thread(...) on a timerThread that is still joinable
\* calls std::terminate
AssignTerminates == timerThread # 0

\* start, from the stores to the creation of the thread
StartCommit(c) ==
    /\ ~crashed
    /\ caller[c].pc = "starting"
    /\ nextThread <= MaxThreads
    /\ callbackMutex = 0
    /\ intervalUs' = caller[c].interval
    /\ callback' = caller[c].cb
    /\ shouldStop' = FALSE
    /\ running' = TRUE
    /\ threads' = [threads EXCEPT ![nextThread] = Spawned(caller[c].cb)]
    /\ nextThread' = nextThread + 1
    /\ IF AssignTerminates
       THEN crashed' = TRUE /\ UNCHANGED timerThread
       ELSE timerThread' = nextThread /\ UNCHANGED crashed
    /\ caller' = [caller EXCEPT ![c] = Returned("start", TRUE)]
    /\ UNCHANGED <<mode, startTime, callbackMutex, now>>
    /\ TimerFrame

\* stop, up to the call of join; reset calls it when the timer is running
StopBegin(c, op) ==
    /\ shouldStop' = TRUE
    /\ threads' = [t \in ThreadIds |->
                      IF Alive(threads[t])
                      THEN [threads[t] EXCEPT !.stopSeen = TRUE]
                      ELSE threads[t]]
    /\ caller' = [caller EXCEPT ![c] =
          IF timerThread = 0
          THEN IF op = "stop"
               THEN Returned("stop", FALSE)
               ELSE [IdleCaller EXCEPT !.pc = "resetting"]
          ELSE [IdleCaller EXCEPT !.pc = "joining", !.target = timerThread, !.op = op]]
    /\ UNCHANGED <<mode, intervalUs, running, timerThread, callback,
                   startTime, callbackMutex, nextThread, crashed, now>>
    /\ TimerFrame

stop(c) ==
    /\ ~crashed
    /\ caller[c].pc = "idle"
    /\ StopBegin(c, "stop")

\* a stop that does not wait for the thread
Exited_m(t) == TRUE

\* join returns when the thread has left timerLoop
Exited(t) == threads[t].pc = "done"

\* stop, timerThread.join() returns and the running flag is cleared.  A join
\* of a thread that another caller has joined in the meantime is undefined:
\* it returns or it terminates the process.
StopJoin(c) ==
    /\ ~crashed
    /\ caller[c].pc = "joining"
    /\ Exited(caller[c].target)
    /\ \/ /\ timerThread = caller[c].target
          /\ timerThread' = 0
          /\ threads' = [threads EXCEPT ![caller[c].target] =
                            IF @.pc = "done" THEN JoinedThread(@) ELSE @]
          /\ running' = FALSE
          /\ UNCHANGED crashed
          /\ caller' = [caller EXCEPT ![c] =
                IF caller[c].op = "stop"
                THEN Returned("stop", TRUE)
                ELSE [IdleCaller EXCEPT !.pc = "resetting"]]
       \/ /\ timerThread # caller[c].target
          /\ \/ /\ crashed' = TRUE
                /\ UNCHANGED <<running, caller>>
             \/ /\ running' = FALSE
                /\ UNCHANGED crashed
                /\ caller' = [caller EXCEPT ![c] =
                      IF caller[c].op = "stop"
                      THEN Returned("stop", TRUE)
                      ELSE [IdleCaller EXCEPT !.pc = "resetting"]]
          /\ UNCHANGED <<timerThread, threads>>
    /\ UNCHANGED <<mode, intervalUs, shouldStop, callback, startTime,
                   callbackMutex, nextThread, now>>
    /\ TimerFrame

\* reset, the test of the running flag and the call of stop
reset(c) ==
    /\ ~crashed
    /\ caller[c].pc = "idle"
    /\ IF running
       THEN StopBegin(c, "reset")
       ELSE /\ caller' = [caller EXCEPT ![c] = [IdleCaller EXCEPT !.pc = "resetting"]]
            /\ UNCHANGED <<mode, intervalUs, running, shouldStop, timerThread,
                           callback, startTime, callbackMutex, threads,
                           nextThread, crashed, now>>
            /\ TimerFrame

\* reset, startTime = steady_clock::now()
ResetFinish(c) ==
    /\ ~crashed
    /\ caller[c].pc = "resetting"
    /\ startTime' = now
    /\ caller' = [caller EXCEPT ![c] = Returned("reset", TRUE)]
    /\ UNCHANGED <<mode, intervalUs, running, shouldStop, timerThread, callback,
                   callbackMutex, threads, nextThread, crashed, now>>
    /\ TimerFrame

\* a setInterval that does not look at the running flag
SetIntervalRefused_m == FALSE

\* setInterval: if (running.load()) return false
SetIntervalRefused == running

setInterval(c, interval) ==
    /\ ~crashed
    /\ caller[c].pc = "idle"
    /\ IF SetIntervalRefused
       THEN /\ caller' = [caller EXCEPT ![c] = Returned("setInterval", FALSE)]
            /\ UNCHANGED intervalUs
       ELSE /\ caller' = [caller EXCEPT ![c] = Returned("setInterval", TRUE)]
            /\ intervalUs' = interval
    /\ UNCHANGED <<mode, running, shouldStop, timerThread, callback, startTime,
                   callbackMutex, threads, nextThread, crashed, now>>
    /\ TimerFrame

\* getInterval()
getInterval == intervalUs

\* getElapsedUs(): duration_cast<microseconds>(now - startTime)
getElapsedUs == now - startTime

\* timerLoop: startTime = steady_clock::now()
LoopInit(t) ==
    /\ ~crashed
    /\ threads[t].pc = "init"
    /\ startTime' = now
    /\ threads' = [threads EXCEPT ![t].pc = "top"]
    /\ UNCHANGED <<mode, intervalUs, running, shouldStop, timerThread, callback,
                   callbackMutex, nextThread, caller, crashed, now>>
    /\ TimerFrame

\* a loop that sleeps for the interval in both modes
Deadline_m(m) == now + intervalUs

\* the instant at which the sleep of this turn ends: sleep_until(nextTick)
\* in PERIODIC mode, sleep_for(intervalUs) otherwise
Deadline(m) == IF m = "PERIODIC" THEN startTime + intervalUs ELSE now + intervalUs

\* timerLoop: the loop condition, nextTick and the call of the sleep
LoopTop(t) ==
    /\ ~crashed
    /\ threads[t].pc = "top"
    /\ threads' = [threads EXCEPT ![t] =
          IF shouldStop
          THEN [@ EXCEPT !.pc = "exit"]
          ELSE [@ EXCEPT !.pc = "sleep",
                         !.nextTick = startTime + intervalUs,
                         !.wakeAt = Deadline(mode)]]
    /\ UNCHANGED <<mode, intervalUs, running, shouldStop, timerThread, callback,
                   startTime, callbackMutex, nextThread, caller, crashed, now>>
    /\ TimerFrame

\* timerLoop: the sleep returns; unless told to stop the thread locks
\* callbackMutex and tests the callback
SleepReturns(t) ==
    /\ ~crashed
    /\ threads[t].pc = "sleep"
    /\ IF shouldStop
       THEN /\ threads' = [threads EXCEPT ![t].pc = "post"]
            /\ UNCHANGED callbackMutex
       ELSE /\ callbackMutex = 0
            /\ IF callback # Empty
               THEN /\ threads' = [threads EXCEPT ![t].pc = "cb"]
                    /\ callbackMutex' = t
               ELSE /\ threads' = [threads EXCEPT ![t].pc = "post"]
                    /\ UNCHANGED callbackMutex
    /\ UNCHANGED <<mode, intervalUs, running, shouldStop, timerThread, callback,
                   startTime, nextThread, caller, crashed, now>>
    /\ TimerFrame

\* the sleep returns when its instant has come
Wake(t) == now >= threads[t].wakeAt /\ SleepReturns(t)

\* a sleep that ends after the last instant the model counts
WakeLate(t) == now = MaxTime /\ threads[t].wakeAt > MaxTime /\ SleepReturns(t)

\* timerLoop: the callback calls stop() of its timer: shouldStop.store(true)
\* and the test of timerThread.joinable()
CallbackStop(t) ==
    /\ ~crashed
    /\ threads[t].pc = "cb"
    /\ shouldStop' = TRUE
    /\ threads' = [u \in ThreadIds |->
                      IF u = t
                      THEN [threads[u] EXCEPT !.stopSeen = TRUE,
                               !.pc = IF timerThread = 0 THEN "cb" ELSE "selfstop"]
                      ELSE IF Alive(threads[u])
                           THEN [threads[u] EXCEPT !.stopSeen = TRUE]
                           ELSE threads[u]]
    /\ UNCHANGED <<mode, intervalUs, running, timerThread, callback, startTime,
                   callbackMutex, nextThread, caller, crashed, now>>
    /\ TimerFrame

\* stop() called by the callback: timerThread.join().  The join of the
\* calling thread itself throws std::system_error, which nothing catches in
\* the thread: std::terminate; the join of another thread returns when that
\* thread has left timerLoop.
CallbackStopJoin(t) ==
    /\ ~crashed
    /\ threads[t].pc = "selfstop"
    /\ IF timerThread = t \/ timerThread = 0
       THEN /\ crashed' = TRUE
            /\ UNCHANGED <<running, timerThread, threads>>
       ELSE /\ Exited(timerThread)
            /\ running' = FALSE
            /\ timerThread' = 0
            /\ threads' = [threads EXCEPT ![timerThread] = JoinedThread(@),
                                          ![t].pc = "cb"]
            /\ UNCHANGED crashed
    /\ UNCHANGED <<mode, intervalUs, shouldStop, callback, startTime,
                   callbackMutex, nextThread, caller, now>>
    /\ TimerFrame

\* timerLoop: callback() runs and returns, the lock is released
Callback(t) ==
    /\ ~crashed
    /\ threads[t].pc = "cb"
    /\ threads' = [threads EXCEPT ![t].pc = "post", ![t].fired = @ + 1]
    /\ callbackMutex' = 0
    /\ UNCHANGED <<mode, intervalUs, running, shouldStop, timerThread, callback,
                   startTime, nextThread, caller, crashed, now>>
    /\ TimerFrame

\* a one-shot loop without its break
LeavesLoop_m(m) == FALSE

\* if (mode == TimerMode::ONE_SHOT) break
LeavesLoop(m) == m = "ONE_SHOT"

\* timerLoop: the end of one turn of the loop
Post(t) ==
    /\ ~crashed
    /\ threads[t].pc = "post"
    /\ IF LeavesLoop(mode)
       THEN /\ threads' = [threads EXCEPT ![t].pc = "exit"]
            /\ UNCHANGED startTime
       ELSE /\ threads' = [threads EXCEPT ![t].pc = "top"]
            /\ startTime' = IF mode = "PERIODIC" THEN threads[t].nextTick ELSE startTime
    /\ UNCHANGED <<mode, intervalUs, running, shouldStop, timerThread, callback,
                   callbackMutex, nextThread, caller, crashed, now>>
    /\ TimerFrame

\* timerLoop: running.store(false), the thread ends
Exit(t) ==
    /\ ~crashed
    /\ threads[t].pc = "exit"
    /\ running' = FALSE
    /\ threads' = [threads EXCEPT ![t].pc = "done"]
    /\ UNCHANGED <<mode, intervalUs, shouldStop, timerThread, callback,
                   startTime, callbackMutex, nextThread, caller, crashed, now>>
    /\ TimerFrame

\* the interface of the timer, called by the threads in cs
TimerCalls(cs) ==
    \/ \E c \in cs, m \in {"ONE_SHOT", "PERIODIC"} : init(c, m)
    \/ \E c \in cs, i \in Intervals, cb \in Handlers \cup {Empty} : StartBegin(c, i, cb)
    \/ \E c \in cs : StartRefused(c)
    \/ \E c \in cs : StartCommit(c)
    \/ \E c \in cs : stop(c)
    \/ \E c \in cs : StopJoin(c)
    \/ \E c \in cs : reset(c)
    \/ \E c \in cs : ResetFinish(c)
    \/ \E c \in cs, i \in Intervals : setInterval(c, i)

timerLoop ==
    \/ \E t \in ThreadIds : LoopInit(t)
    \/ \E t \in ThreadIds : LoopTop(t)
    \/ \E t \in ThreadIds : Wake(t)
    \/ \E t \in ThreadIds : Callback(t)
    \/ \E t \in ThreadIds : Post(t)
    \/ \E t \in ThreadIds : Exit(t)

(***************************************************************************)
(* GPIOLinux: interrupts and their watcher threads                         *)
(***************************************************************************)
Pins == Keys
WatcherIds == 1 .. MaxWatchers

\* the file operations of setInterrupt and removeInterrupt that can fail
Failures == {"none", "export", "direction", "edge"}

NoWatcher == [pc |-> "unborn", pin |-> 0]

GpioInit ==
    /\ pins = << >>
    /\ interruptThreads = [p \in Pins |-> 0]
    /\ shutdownRequested = FALSE
    /\ watcher = [w \in WatcherIds |-> NoWatcher]
    /\ nextWatcher = 1
    /\ destructor = [pc |-> "alive", joined |-> {}, cleaned |-> {}]
    /\ terminated = FALSE

\* a thread that is executing monitorInterrupt
Watching(w) == watcher[w].pc \notin {"unborn", "done", "joined"}

WatchersOf(pin) == {w \in WatcherIds : Watching(w) /\ watcher[w].pin = pin}

\* PinInfo as setInterrupt creates it for a pin it has not seen
NewPin(resourceId) ==
    [resourceId |-> resourceId, exported |-> TRUE, interruptActive |-> FALSE,
     callbackId |-> 0]

\* interruptThreads_[pin] = std::make_unique<std::thread>(...): the thread
\* object the map owned is destroyed, which calls std::terminate when that
\* thread was not joined
ReplaceTerminates(pin) == interruptThreads[pin] # 0

\* setInterrupt(pin, edge, callback); fail is the file operation that fails
setInterrupt(pin, cb, fail) ==
    /\ ~terminated
    /\ destructor.pc = "alive"
    /\ fail = "export" => pin \notin DOMAIN pins
    /\ IF pin \notin DOMAIN pins /\ fail = "export"
       THEN UNCHANGED <<registryVars, dispatcherVars, gpioVars>>
       ELSE LET exported == IF pin \in DOMAIN pins
                            THEN pins
                            ELSE Put(pins, pin, NewPin(FreshId))
            IN /\ IF pin \in DOMAIN pins
                  THEN UNCHANGED registryVars
                  ELSE registerResource_call
               /\ IF fail # "none"
                  THEN /\ pins' = exported
                       /\ UNCHANGED <<dispatcherVars, interruptThreads, watcher,
                                      nextWatcher, terminated>>
                  ELSE /\ Register_call("gpio", pin, cb)
                       /\ pins' = [exported EXCEPT
                                      ![pin].callbackId = nextCallbackId,
                                      ![pin].interruptActive = TRUE]
                       /\ IF exported[pin].interruptActive
                          THEN UNCHANGED <<interruptThreads, watcher, nextWatcher,
                                           terminated>>
                          ELSE /\ nextWatcher <= MaxWatchers
                               /\ watcher' = [watcher EXCEPT ![nextWatcher] =
                                                 [pc |-> "open", pin |-> pin]]
                               /\ nextWatcher' = nextWatcher + 1
                               /\ interruptThreads' =
                                     [interruptThreads EXCEPT ![pin] = nextWatcher]
                               /\ terminated' = ReplaceTerminates(pin)
               /\ UNCHANGED <<shutdownRequested, destructor>>
    /\ UNCHANGED <<timerVars, workerVars, deviceVars, engineVars, visualizerVars>>

\* removeInterrupt(pin); failed says that the edge file cannot be opened
removeInterrupt(pin, failed) ==
    /\ ~terminated
    /\ destructor.pc = "alive"
    /\ IF pin \notin DOMAIN pins
       THEN UNCHANGED <<dispatcherVars, gpioVars>>
       ELSE IF ~pins[pin].interruptActive \/ failed
            THEN UNCHANGED <<dispatcherVars, gpioVars>>
            ELSE /\ pins' = [pins EXCEPT ![pin].interruptActive = FALSE,
                                         ![pin].callbackId = 0]
                 /\ IF pins[pin].callbackId # 0
                    THEN Unregister_call("gpio", pins[pin].callbackId, FALSE)
                    ELSE UNCHANGED dispatcherVars
                 /\ UNCHANGED <<interruptThreads, shutdownRequested, watcher,
                                nextWatcher, destructor, terminated>>
    /\ UNCHANGED <<registryVars, timerVars, workerVars, deviceVars, engineVars,
                   visualizerVars>>

\* monitorInterrupt: open(valuePath) and the first read; the thread returns
\* when the file cannot be opened
WatcherOpen(w, opened) ==
    /\ ~terminated
    /\ watcher[w].pc = "open"
    /\ watcher' = [watcher EXCEPT ![w].pc = IF opened THEN "loop" ELSE "done"]
    /\ UNCHANGED <<pins, interruptThreads, shutdownRequested, nextWatcher,
                   destructor, terminated>>
    /\ UNCHANGED <<registryVars, dispatcherVars, timerVars, workerVars, deviceVars,
                   engineVars, visualizerVars>>

\* a loop that does not test the flag
WatcherLoop_m(w) ==
    /\ ~terminated
    /\ watcher[w].pc = "loop"
    /\ watcher' = [watcher EXCEPT ![w].pc = "poll"]
    /\ UNCHANGED <<pins, interruptThreads, shutdownRequested, nextWatcher,
                   destructor, terminated>>
    /\ UNCHANGED <<registryVars, dispatcherVars, timerVars, workerVars, deviceVars,
                   engineVars, visualizerVars>>

\* monitorInterrupt: the test of shutdownRequested_ and the call of poll
WatcherLoop(w) ==
    /\ ~terminated
    /\ watcher[w].pc = "loop"
    /\ watcher' = [watcher EXCEPT ![w].pc = IF shutdownRequested THEN "done" ELSE "poll"]
    /\ UNCHANGED <<pins, interruptThreads, shutdownRequested, nextWatcher,
                   destructor, terminated>>
    /\ UNCHANGED <<registryVars, dispatcherVars, timerVars, workerVars, deviceVars,
                   engineVars, visualizerVars>>

\* monitorInterrupt: poll returns; on an edge that can be read the thread
\* calls invokeGPIOCallback, after a timeout it goes round the loop
WatcherPoll(w, edge) ==
    /\ ~terminated
    /\ watcher[w].pc = "poll"
    /\ IF edge
       THEN /\ InvokeBegin_call(w, "gpio", watcher[w].pin)
            /\ watcher' = [watcher EXCEPT ![w].pc = "invoke"]
       ELSE /\ watcher' = [watcher EXCEPT ![w].pc = "loop"]
            /\ UNCHANGED dispatcherVars
    /\ UNCHANGED <<pins, interruptThreads, shutdownRequested, nextWatcher,
                   destructor, terminated>>
    /\ UNCHANGED <<registryVars, timerVars, workerVars, deviceVars, engineVars,
                   visualizerVars>>

\* monitorInterrupt: invokeGPIOCallback returns
WatcherInvoked(w) ==
    /\ ~terminated
    /\ watcher[w].pc = "invoke"
    /\ InvokeReturn_call(w)
    /\ watcher' = [watcher EXCEPT ![w].pc = "loop"]
    /\ UNCHANGED <<pins, interruptThreads, shutdownRequested, nextWatcher,
                   destructor, terminated>>
    /\ UNCHANGED <<registryVars, timerVars, workerVars, deviceVars, engineVars,
                   visualizerVars>>

\* the steps of invokeGPIOCallback on the thread of a watcher
WatcherInvoke(w) ==
    /\ ~terminated
    /\ watcher[w].pc = "invoke"
    /\ \/ InvokeLookup(w)
       \/ InvokeUnlock(w)
       \/ InvokeCall(w)
       \/ HandlerReturn(w)

\* ~GPIOLinux: shutdownRequested_.store(true)
Destroy_begin ==
    /\ ~terminated
    /\ destructor.pc = "alive"
    /\ shutdownRequested' = TRUE
    /\ destructor' = [destructor EXCEPT !.pc = "joining"]
    /\ UNCHANGED <<pins, interruptThreads, watcher, nextWatcher, terminated>>
    /\ UNCHANGED <<registryVars, dispatcherVars, timerVars, workerVars, deviceVars,
                   engineVars, visualizerVars>>

\* a destructor that does not wait for the thread
WatcherExited_m(w) == TRUE

\* thread->join() returns when the thread has left monitorInterrupt
WatcherExited(w) == watcher[w].pc = "done"

\* ~GPIOLinux: one turn of the loop over interruptThreads_
Destroy_join(pin) ==
    /\ ~terminated
    /\ destructor.pc = "joining"
    /\ pin \notin destructor.joined
    /\ IF interruptThreads[pin] # 0
       THEN /\ WatcherExited(interruptThreads[pin])
            /\ watcher' = [watcher EXCEPT ![interruptThreads[pin]].pc =
                              IF @ = "done" THEN "joined" ELSE @]
       ELSE UNCHANGED watcher
    /\ destructor' = [destructor EXCEPT !.joined = @ \cup {pin}]
    /\ UNCHANGED <<pins, interruptThreads, shutdownRequested, nextWatcher, terminated>>
    /\ UNCHANGED <<registryVars, dispatcherVars, timerVars, workerVars, deviceVars,
                   engineVars, visualizerVars>>

\* ~GPIOLinux: the loop over interruptThreads_ has ended, pinMutex_ is taken
Destroy_joined ==
    /\ ~terminated
    /\ destructor.pc = "joining"
    /\ destructor.joined = Pins
    /\ destructor' = [destructor EXCEPT !.pc = "cleanup"]
    /\ UNCHANGED <<pins, interruptThreads, shutdownRequested, watcher, nextWatcher,
                   terminated>>
    /\ UNCHANGED <<registryVars, dispatcherVars, timerVars, workerVars, deviceVars,
                   engineVars, visualizerVars>>

\* ~GPIOLinux: one turn of the loop over pins_
Destroy_pin(pin) ==
    /\ ~terminated
    /\ destructor.pc = "cleanup"
    /\ pin \in (DOMAIN pins) \ destructor.cleaned
    /\ IF pins[pin].resourceId # 0
       THEN unregisterResource_call(pins[pin].resourceId)
       ELSE UNCHANGED registryVars
    /\ IF pins[pin].callbackId # 0
       THEN Unregister_call("gpio", pins[pin].callbackId, FALSE)
       ELSE UNCHANGED dispatcherVars
    /\ destructor' = [destructor EXCEPT !.cleaned = @ \cup {pin}]
    /\ UNCHANGED <<pins, interruptThreads, shutdownRequested, watcher, nextWatcher,
                   terminated>>
    /\ UNCHANGED <<timerVars, workerVars, deviceVars, engineVars, visualizerVars>>

\* ~GPIOLinux returns and the members are destroyed: interruptThreads_ with
\* its thread objects, then pins_
Destroy_end ==
    /\ ~terminated
    /\ destructor.pc = "cleanup"
    /\ destructor.cleaned = DOMAIN pins
    /\ destructor' = [destructor EXCEPT !.pc = "destroyed"]
    /\ terminated' = \E p \in Pins :
                         /\ interruptThreads[p] # 0
                         /\ watcher[interruptThreads[p]].pc # "joined"
    /\ UNCHANGED <<pins, interruptThreads, shutdownRequested, watcher, nextWatcher>>
    /\ UNCHANGED <<registryVars, dispatcherVars, timerVars, workerVars, deviceVars,
                   engineVars, visualizerVars>>

(***************************************************************************)
(* The backends that register one resource: ADC, SPI, I2C, UART, PWM       *)
(***************************************************************************)
MaxStarts == 2

\* owner 0 is the application, owner w the w-th thread of the state engine
Owners == 0 .. MaxStarts

\* in the order in which engineLoop creates them
Kinds == <<"adc", "spi", "i2c", "uart", "pwm">>
KindSet == {Kinds[i] : i \in DOMAIN Kinds}

\* the backends whose init can fail after it has registered the resource
ConfiguredAfterRegister == {"spi", "uart"}

NewDevice == [pc |-> "new", resourceId |-> 0, registered |-> 0]

DeviceInit == device = [o \in Owners |-> [k \in KindSet |-> NewDevice]]

DeviceFrame ==
    UNCHANGED <<dispatcherVars, timerVars, workerVars, gpioVars, engineVars, visualizerVars>>

\* init: the device file is opened and, when that worked, the resource is
\* registered; init returns false when it did not
Device_open(o, k, opened) ==
    /\ device[o][k].pc = "new"
    /\ IF opened
       THEN /\ registerResource_call
            /\ device' = [device EXCEPT ![o][k] =
                             [pc |-> "registered", resourceId |-> FreshId,
                              registered |-> FreshId]]
       ELSE /\ UNCHANGED registryVars
            /\ device' = [device EXCEPT ![o][k].pc = "failed"]

\* init: the device is configured (SPI: three ioctl calls, UART:
\* configurePort); setInUse(resourceId_, true) and true when that worked,
\* false when it did not
Device_configure(o, k, configured) ==
    /\ device[o][k].pc = "registered"
    /\ ~configured => k \in ConfiguredAfterRegister
    /\ IF configured
       THEN /\ setInUse_call(device[o][k].resourceId, TRUE)
            /\ device' = [device EXCEPT ![o][k].pc = "ready"]
       ELSE /\ UNCHANGED registryVars
            /\ device' = [device EXCEPT ![o][k].pc = "failed"]

\* init has returned, or was never called
Destructible(d) == d.pc \in {"new", "failed", "ready"}

\* the destructor: if (resourceId_ != 0) setInUse(resourceId_, false)
Device_dtor(o, k) ==
    /\ Destructible(device[o][k])
    /\ IF device[o][k].resourceId # 0
       THEN /\ setInUse_call(device[o][k].resourceId, FALSE)
            /\ device' = [device EXCEPT ![o][k].pc = "unregister"]
       ELSE /\ UNCHANGED registryVars
            /\ device' = [device EXCEPT ![o][k].pc = "destroyed"]

\* the destructor: unregisterResource(resourceId_); resourceId_ = 0
Device_dtor_unregister(o, k) ==
    /\ device[o][k].pc = "unregister"
    /\ unregisterResource_call(device[o][k].resourceId)
    /\ device' = [device EXCEPT ![o][k].pc = "destroyed", ![o][k].resourceId = 0]

(***************************************************************************)
(* HALStateEngine                                                          *)
(***************************************************************************)
Clients == {1, 2}
EngineThreadIds == 1 .. MaxStarts

NoEngineThread == [pc |-> "unborn", idx |-> 0]

IdleClient == [pc |-> "idle", target |-> 0, op |-> "none", ok |-> FALSE, state |-> "none"]

\* what a client keeps of the call that has returned
Answer(op, ok) == [IdleClient EXCEPT !.op = op, !.ok = ok]

EngineInit ==
    /\ running_ = FALSE
    /\ stopRequested_ = FALSE
    /\ worker_ = 0
    /\ engineThreads = [w \in EngineThreadIds |-> NoEngineThread]
    /\ nextEngineThread = 1
    /\ client = [c \in Clients |-> IdleClient]
    /\ engineTerminated = FALSE

EngineFrame ==
    UNCHANGED <<registryVars, dispatcherVars, timerVars, workerVars, gpioVars, deviceVars,
                visualizerVars>>

\* a thread that is executing engineLoop
InLoop(w) == engineThreads[w].pc \notin {"unborn", "done", "joined"}

EngineAlive == {w \in EngineThreadIds : InLoop(w)}

\* worker_ = std::thread(...): assigning to a thread object that is joinable
\* calls std::terminate
WorkerAssignTerminates == worker_ # 0

\* a start that does not look at running_
AlreadyRunning_m == FALSE

AlreadyRunning == running_

\* start(): one critical section of mutex_
HALStateEngine_start(c) ==
    /\ ~engineTerminated
    /\ client[c].pc = "idle"
    /\ IF AlreadyRunning
       THEN /\ client' = [client EXCEPT ![c] = Answer("start", FALSE)]
            /\ UNCHANGED <<running_, stopRequested_, worker_, engineThreads,
                           nextEngineThread, engineTerminated>>
       ELSE /\ nextEngineThread <= MaxStarts
            /\ running_' = TRUE
            /\ stopRequested_' = FALSE
            /\ engineThreads' = [engineThreads EXCEPT ![nextEngineThread] =
                                    [pc |-> "setup", idx |-> 1]]
            /\ nextEngineThread' = nextEngineThread + 1
            /\ IF WorkerAssignTerminates
               THEN engineTerminated' = TRUE /\ UNCHANGED worker_
               ELSE worker_' = nextEngineThread /\ UNCHANGED engineTerminated
            /\ client' = [client EXCEPT ![c] = Answer("start", TRUE)]
    /\ EngineFrame

\* cv_.notify_all(): the threads that wait on cv_ are woken
Notified(cl) ==
    [c \in Clients |-> IF cl[c].pc = "waiting" THEN [cl[c] EXCEPT !.pc = "notified"]
                                               ELSE cl[c]]

\* stop(): the critical section of mutex_
HALStateEngine_stop(c) ==
    /\ ~engineTerminated
    /\ client[c].pc = "idle"
    /\ IF ~running_
       THEN /\ client' = [client EXCEPT ![c] = Answer("stop", FALSE)]
            /\ UNCHANGED stopRequested_
       ELSE /\ stopRequested_' = TRUE
            /\ client' = [Notified(client) EXCEPT ![c] =
                             [IdleClient EXCEPT !.pc = "joinable"]]
    /\ UNCHANGED <<running_, worker_, engineThreads, nextEngineThread, engineTerminated>>
    /\ EngineFrame

\* stop(): if (worker_.joinable())
StopJoinable(c) ==
    /\ ~engineTerminated
    /\ client[c].pc = "joinable"
    /\ client' = [client EXCEPT ![c] =
                     IF worker_ # 0
                     THEN [@ EXCEPT !.pc = "joining", !.target = worker_]
                     ELSE [@ EXCEPT !.pc = "clear"]]
    /\ UNCHANGED <<running_, stopRequested_, worker_, engineThreads, nextEngineThread,
                   engineTerminated>>
    /\ EngineFrame

\* a stop that does not wait for the thread
LoopLeft_m(w) == TRUE

\* join returns when the thread has left engineLoop
LoopLeft(w) == engineThreads[w].pc = "done"

\* stop(): worker_.join() returns.  A join of a thread that another caller has
\* joined in the meantime is undefined: it returns or it terminates the process.
StopJoined(c) ==
    /\ ~engineTerminated
    /\ client[c].pc = "joining"
    /\ LoopLeft(client[c].target)
    /\ \/ /\ worker_ = client[c].target
          /\ worker_' = 0
          /\ engineThreads' = [engineThreads EXCEPT ![client[c].target].pc =
                                  IF @ = "done" THEN "joined" ELSE @]
          /\ client' = [client EXCEPT ![c].pc = "clear"]
          /\ UNCHANGED engineTerminated
       \/ /\ worker_ # client[c].target
          /\ \/ /\ engineTerminated' = TRUE
                /\ UNCHANGED client
             \/ /\ client' = [client EXCEPT ![c].pc = "clear"]
                /\ UNCHANGED engineTerminated
          /\ UNCHANGED <<worker_, engineThreads>>
    /\ UNCHANGED <<running_, stopRequested_, nextEngineThread>>
    /\ EngineFrame

\* stop(): running_ = false; return *this
StopReturn(c) ==
    /\ ~engineTerminated
    /\ client[c].pc = "clear"
    /\ running_' = FALSE
    /\ client' = [client EXCEPT ![c] = Answer("stop", TRUE)]
    /\ UNCHANGED <<stopRequested_, worker_, engineThreads, nextEngineThread,
                   engineTerminated>>
    /\ EngineFrame

\* running_.load() ? HALState::RUNNING : HALState::STOPPED
StateOf == IF running_ THEN "RUNNING" ELSE "STOPPED"

getState(c) ==
    /\ ~engineTerminated
    /\ client[c].pc = "idle"
    /\ client' = [client EXCEPT ![c] = [Answer("getState", TRUE) EXCEPT !.state = StateOf]]
    /\ UNCHANGED <<running_, stopRequested_, worker_, engineThreads, nextEngineThread,
                   engineTerminated>>
    /\ EngineFrame

\* the predicate of cv_.wait
WaitOver == stopRequested_

\* waitForStop(): the lock is taken and the predicate is tested; the thread
\* waits on cv_ when it is false
waitForStop(c) ==
    /\ ~engineTerminated
    /\ client[c].pc = "idle"
    /\ client' = [client EXCEPT ![c] =
                     IF WaitOver
                     THEN Answer("waitForStop", stopRequested_)
                     ELSE [IdleClient EXCEPT !.pc = "waiting"]]
    /\ UNCHANGED <<running_, stopRequested_, worker_, engineThreads, nextEngineThread,
                   engineTerminated>>
    /\ EngineFrame

\* waitForStop(): the thread wakes, takes the lock and tests the predicate
WaitRecheck(c) ==
    /\ client' = [client EXCEPT ![c] =
                     IF WaitOver
                     THEN Answer("waitForStop", stopRequested_)
                     ELSE [IdleClient EXCEPT !.pc = "waiting"]]
    /\ UNCHANGED <<running_, stopRequested_, worker_, engineThreads, nextEngineThread,
                   engineTerminated>>
    /\ EngineFrame

\* a thread that was notified wakes
WaitWake(c) ==
    /\ ~engineTerminated
    /\ client[c].pc = "notified"
    /\ WaitRecheck(c)

EngineThreadFrame ==
    UNCHANGED <<dispatcherVars, timerVars, workerVars, gpioVars, visualizerVars,
                running_, stopRequested_, worker_, nextEngineThread, client,
                engineTerminated>>

\* engineLoop: one of the backends is created and initialised; the next one
\* follows when init has returned
EngineSetup(w) ==
    /\ ~engineTerminated
    /\ engineThreads[w].pc = "setup"
    /\ engineThreads[w].idx \in DOMAIN Kinds
    /\ LET k == Kinds[engineThreads[w].idx]
       IN /\ \/ \E opened \in BOOLEAN : Device_open(w, k, opened)
             \/ \E configured \in BOOLEAN : Device_configure(w, k, configured)
          /\ engineThreads' = [engineThreads EXCEPT ![w].idx =
                                  IF device'[w][k].pc \in {"failed", "ready"}
                                  THEN @ + 1 ELSE @]
    /\ EngineThreadFrame

\* engineLoop: the GPIO backend and the timer are created, mutex_ is locked
EngineEnter(w) ==
    /\ ~engineTerminated
    /\ engineThreads[w].pc = "setup"
    /\ engineThreads[w].idx \notin DOMAIN Kinds
    /\ engineThreads' = [engineThreads EXCEPT ![w].pc = "loop"]
    /\ UNCHANGED <<registryVars, deviceVars>>
    /\ EngineThreadFrame

\* engineLoop: with the lock, the test of stopRequested_; the ADC is read and
\* the lock dropped for the sleep when it is false, the loop is left and the
\* lock released when it is true
EngineTurn(w) ==
    /\ ~engineTerminated
    /\ engineThreads[w].pc = "loop"
    /\ engineThreads' = [engineThreads EXCEPT ![w] =
                            IF stopRequested_
                            THEN [pc |-> "teardown", idx |-> Len(Kinds)]
                            ELSE @]
    /\ UNCHANGED <<registryVars, deviceVars>>
    /\ EngineThreadFrame

\* engineLoop returns: the backends are destroyed, the last created first
EngineTeardown(w) ==
    /\ ~engineTerminated
    /\ engineThreads[w].pc = "teardown"
    /\ engineThreads[w].idx \in DOMAIN Kinds
    /\ LET k == Kinds[engineThreads[w].idx]
       IN /\ \/ Device_dtor(w, k)
             \/ Device_dtor_unregister(w, k)
          /\ engineThreads' = [engineThreads EXCEPT ![w].idx =
                                  IF device'[w][k].pc = "destroyed" THEN @ - 1 ELSE @]
    /\ EngineThreadFrame

\* the thread has left engineLoop
EngineExit(w) ==
    /\ ~engineTerminated
    /\ engineThreads[w].pc = "teardown"
    /\ engineThreads[w].idx = 0
    /\ engineThreads' = [engineThreads EXCEPT ![w].pc = "done"]
    /\ UNCHANGED <<registryVars, deviceVars>>
    /\ EngineThreadFrame

(***************************************************************************)
(* ResourceVisualizer::gatherResourceData                                  *)
(***************************************************************************)
\* info is the pointer getResourceInfo returned: the id of the record it
\* points to, or 0 for nullptr
IdleGather == [pc |-> "idle", count |-> 0, id |-> 0, info |-> 0]

VisualizerInit ==
    /\ resourceUsages_ = << >>
    /\ gather = IdleGather

VisualizerFrame ==
    UNCHANGED <<registryVars, dispatcherVars, timerVars, workerVars, gpioVars,
                deviceVars, engineVars>>

\* getResourceCount(): resources_.size()
getResourceCount == Cardinality(DOMAIN resources)

\* getResourceInfo(id): nullptr, or it->second.get()
getResourceInfo(id) == IF Known(id) THEN id ELSE 0

\* for (uint64_t id = 1; id <= count; ++id)
LastId(count) == count

\* what the reads through info give.  A record that was erased since
\* getResourceInfo returned is freed memory: the reads give any values.
UsagesRead(info) ==
    IF Known(info)
    THEN {[id |-> info, refCount |-> resources[info].refCount,
           inUse |-> resources[info].inUse]}
    ELSE {[id |-> info, refCount |-> n, inUse |-> b] :
             n \in 0 .. MaxRefCount, b \in BOOLEAN}

\* gatherResourceData: the count is read and resourceUsages_ cleared
Gather_begin ==
    /\ gather.pc = "idle"
    /\ gather' = [pc |-> "loop", count |-> getResourceCount, id |-> 1, info |-> 0]
    /\ resourceUsages_' = << >>
    /\ VisualizerFrame

\* gatherResourceData: the loop condition and rm.getResourceInfo(id)
Gather_getInfo ==
    /\ gather.pc = "loop"
    /\ gather' = IF gather.id > LastId(gather.count)
                 THEN [gather EXCEPT !.pc = "done"]
                 ELSE IF getResourceInfo(gather.id) = 0
                      THEN [gather EXCEPT !.id = @ + 1]
                      ELSE [gather EXCEPT !.pc = "read",
                                          !.info = getResourceInfo(gather.id)]
    /\ UNCHANGED resourceUsages_
    /\ VisualizerFrame

\* gatherResourceData: info->name, info->refCount.load(), info->inUse.load()
\* and the push_back; the lock of the registry is not held
Gather_read ==
    /\ gather.pc = "read"
    /\ \E usage \in UsagesRead(gather.info) :
          resourceUsages_' = Append(resourceUsages_, usage)
    /\ gather' = [gather EXCEPT !.pc = "loop", !.id = @ + 1, !.info = 0]
    /\ VisualizerFrame

\* gatherResourceData returns
Gather_return ==
    /\ gather.pc = "done"
    /\ gather' = IdleGather
    /\ UNCHANGED resourceUsages_
    /\ VisualizerFrame

gatherResourceData ==
    \/ Gather_begin
    \/ Gather_getInfo
    \/ Gather_read
    \/ Gather_return

(***************************************************************************)
(* Specifications                                                          *)
(***************************************************************************)
Init ==
    /\ RegistryInit /\ DispatcherInit /\ TimerInit /\ WorkerInit /\ GpioInit
    /\ DeviceInit /\ EngineInit /\ VisualizerInit

Next ==
    \/ registerResource
    \/ \E id \in ResourceIds : unregisterResource(id)
    \/ \E id \in ResourceIds : addRef(id)
    \/ \E id \in ResourceIds : release(id)
    \/ \E id \in ResourceIds, b \in BOOLEAN : setInUse(id, b)
    \/ ResourceManager_clearAll

Spec == Init /\ [][Next]_vars

\* guards taken on registered resources only, and no other holder of
\* references than the registrant and the guards
GuardNext ==
    \/ registerResource
    \/ \E g \in GuardIds, id \in DOMAIN resources : ResourceGuard_ctor(g, id)
    \/ \E g \in GuardIds : ResourceGuard_dtor(g)
    \/ \E g \in GuardIds, o \in GuardIds : ResourceGuard_move(g, o)
    \/ \E g \in GuardIds, o \in GuardIds : ResourceGuard_moveAssign(g, o)

GuardSpec == Init /\ [][GuardNext]_vars

\* threads that each register resources in a loop, with addRef, setInUse and
\* release on every id they get, and are joined
WorkerNext ==
    \/ \E w \in Workers : WorkerRegister(w)
    \/ \E w \in Workers : WorkerAddRef(w)
    \/ \E w \in Workers : WorkerSetInUse(w)
    \/ \E w \in Workers : WorkerRelease(w)
    \/ \E w \in Workers : WorkerJoin(w)

WorkerSpec == Init /\ [][WorkerNext]_vars

\* the dispatcher with one thread that invokes, and register, unregister and
\* clearAll called at any moment, by the handlers or by other threads
CallbackNext ==
    \/ \E k \in Keys, cb \in Handlers \cup {Empty} : registerGPIOCallback(k, cb)
    \/ \E k \in Keys, cb \in Handlers \cup {Empty} : registerTimerCallback(k, cb)
    \/ \E d \in Domains, id \in 1 .. MaxCallbacks : Unregister_ignored(d, id)
    \/ \E k \in Keys : invokeGPIOCallback(1, k)
    \/ \E k \in Keys : invokeTimerCallback(1, k)
    \/ InvokeLookup(1)
    \/ InvokeUnlock(1)
    \/ InvokeCall(1)
    \/ HandlerReturn(1)
    \/ InvokeReturn(1)
    \/ CallbackManager_clearAll_gpio
    \/ CallbackManager_clearAll_timer

CallbackSpec == Init /\ [][CallbackNext]_vars

\* the innermost invocation of the thread: a handler of invocation 1 may
\* call invoke itself, which is invocation 2
Top == IF invoker[2].pc # "idle" THEN 2 ELSE 1

\* the thread is not inside a call of the dispatcher: it runs the program or
\* the handler of its innermost invocation
UserCode == clearPc = "idle" /\ invoker[Top].pc \in {"idle", "running"}

\* the dispatcher used by one thread only: every register, unregister, invoke
\* and clearAll is a call of the program or of a handler that is executing
ReentrantNext ==
    \/ UserCode /\ \E k \in Keys, cb \in Handlers : registerGPIOCallback(k, cb)
    \/ UserCode /\ \E k \in Keys, cb \in Handlers : registerTimerCallback(k, cb)
    \/ UserCode /\ \E d \in Domains, id \in 1 .. MaxCallbacks : Unregister_ignored(d, id)
    \/ UserCode /\ \E t \in {1, 2}, k \in Keys :
          (t = 2 => invoker[1].pc = "running") /\ invokeGPIOCallback(t, k)
    \/ UserCode /\ \E t \in {1, 2}, k \in Keys :
          (t = 2 => invoker[1].pc = "running") /\ invokeTimerCallback(t, k)
    \/ clearPc = "idle" /\ InvokeLookup(Top)
    \/ clearPc = "idle" /\ InvokeUnlock(Top)
    \/ clearPc = "idle" /\ InvokeCall(Top)
    \/ clearPc = "idle" /\ HandlerReturn(Top)
    \/ clearPc = "idle" /\ InvokeReturn(Top)
    \/ UserCode /\ CallbackManager_clearAll_gpio
    \/ CallbackManager_clearAll_timer

ReentrantSpec == Init /\ [][ReentrantNext]_vars

\* the thread is not inside a call of the dispatcher
Quiet == clearPc = "idle" /\ invoker[1].pc = "idle"

\* the dispatcher used by one thread whose handlers do not call it: every
\* call returns before the next one is made
SequentialNext ==
    \/ Quiet /\ \E k \in Keys, cb \in Handlers \cup {Empty} : registerGPIOCallback(k, cb)
    \/ Quiet /\ \E k \in Keys, cb \in Handlers \cup {Empty} : registerTimerCallback(k, cb)
    \/ Quiet /\ \E id \in 1 .. MaxCallbacks : unregisterGPIOCallback(id)
    \/ Quiet /\ \E id \in 1 .. MaxCallbacks : unregisterTimerCallback(id)
    \/ Quiet /\ \E k \in Keys : invokeGPIOCallback(1, k)
    \/ Quiet /\ \E k \in Keys : invokeTimerCallback(1, k)
    \/ InvokeLookup(1)
    \/ InvokeUnlock(1)
    \/ InvokeCall(1)
    \/ HandlerReturn(1)
    \/ InvokeReturn(1)
    \/ Quiet /\ CallbackManager_clearAll_gpio
    \/ CallbackManager_clearAll_timer

SequentialSpec == Init /\ [][SequentialNext]_vars

NoneInvoking == \A t \in Invokers : invoker[t].pc = "idle"

\* threads that register concurrently and are joined, then threads that
\* invoke concurrently, each once
FanoutNext ==
    \/ NoneInvoking /\ \E k \in Keys, cb \in Handlers : registerGPIOCallback(k, cb)
    \/ NoneInvoking /\ \E k \in Keys, cb \in Handlers : registerTimerCallback(k, cb)
    \/ \E t \in Invokers, k \in Keys : invokeGPIOCallback(t, k)
    \/ \E t \in Invokers, k \in Keys : invokeTimerCallback(t, k)
    \/ \E t \in Invokers : InvokeLookup(t)
    \/ \E t \in Invokers : InvokeUnlock(t)
    \/ \E t \in Invokers : InvokeCall(t)
    \/ \E t \in Invokers : HandlerReturn(t)

FanoutSpec == Init /\ [][FanoutNext]_vars

\* the GPIO backend with the threads that watch its pins
GpioNext ==
    \/ \E p \in Pins, cb \in Handlers, fail \in Failures : setInterrupt(p, cb, fail)
    \/ \E p \in Pins, failed \in BOOLEAN : removeInterrupt(p, failed)
    \/ \E w \in WatcherIds, opened \in BOOLEAN : WatcherOpen(w, opened)
    \/ \E w \in WatcherIds : WatcherLoop(w)
    \/ \E w \in WatcherIds, edge \in BOOLEAN : WatcherPoll(w, edge)
    \/ \E w \in WatcherIds : WatcherInvoke(w)
    \/ \E w \in WatcherIds : WatcherInvoked(w)
    \/ Destroy_begin
    \/ \E p \in Pins : Destroy_join(p)
    \/ Destroy_joined
    \/ \E p \in Pins : Destroy_pin(p)
    \/ Destroy_end

GpioSpec == Init /\ [][GpioNext]_vars

\* the steps of the thread of a watcher
WatcherSteps(w) ==
    \/ \E opened \in BOOLEAN : WatcherOpen(w, opened)
    \/ WatcherLoop(w)
    \/ \E edge \in BOOLEAN : WatcherPoll(w, edge)
    \/ WatcherInvoke(w)
    \/ WatcherInvoked(w)

\* every poll returns, after 100 ms at the latest, every handler returns and
\* the threads run
GpioFairSpec == GpioSpec /\ \A w \in WatcherIds : WF_vars(WatcherSteps(w))

\* backends that the application creates, initialises and destroys
CollaboratorNext ==
    \/ \E k \in KindSet, opened \in BOOLEAN : Device_open(0, k, opened) /\ DeviceFrame
    \/ \E k \in KindSet, configured \in BOOLEAN :
          Device_configure(0, k, configured) /\ DeviceFrame
    \/ \E k \in KindSet : Device_dtor(0, k) /\ DeviceFrame
    \/ \E k \in KindSet : Device_dtor_unregister(0, k) /\ DeviceFrame

CollaboratorSpec == Init /\ [][CollaboratorNext]_vars

\* the steps of the engine's threads and of the calls that are under way
EngineSteps ==
    \/ \E c \in Clients : StopJoinable(c)
    \/ \E c \in Clients : StopJoined(c)
    \/ \E c \in Clients : StopReturn(c)
    \/ \E c \in Clients : WaitWake(c)
    \/ \E w \in EngineThreadIds : EngineSetup(w)
    \/ \E w \in EngineThreadIds : EngineEnter(w)
    \/ \E w \in EngineThreadIds : EngineTurn(w)
    \/ \E w \in EngineThreadIds : EngineTeardown(w)
    \/ \E w \in EngineThreadIds : EngineExit(w)

\* the state engine with its interface called from two threads
EngineNext ==
    \/ \E c \in Clients : HALStateEngine_start(c)
    \/ \E c \in Clients : HALStateEngine_stop(c)
    \/ \E c \in Clients : getState(c)
    \/ \E c \in Clients : waitForStop(c)
    \/ EngineSteps

EngineSpec == Init /\ [][EngineNext]_vars

\* the threads of the engine and the calls that are under way go on, and a
\* thread that was notified wakes
EngineFairSpec ==
    /\ EngineSpec
    /\ WF_vars(EngineSteps)
    /\ \A c \in Clients : SF_vars(WaitWake(c))

\* no stop is under way
NoneStopping == \A c \in Clients : client[c].pc \notin {"joinable", "joining", "clear"}

\* the state engine with start, getState and waitForStop called from two
\* threads at any moment, and stop called when no other stop is under way
EngineSerialNext ==
    \/ \E c \in Clients : HALStateEngine_start(c)
    \/ \E c \in Clients : NoneStopping /\ HALStateEngine_stop(c)
    \/ \E c \in Clients : getState(c)
    \/ \E c \in Clients : waitForStop(c)
    \/ EngineSteps

EngineSerialSpec == Init /\ [][EngineSerialNext]_vars

\* the visualizer thread gathers while other threads use the registry
VisualizerNext ==
    \/ Next
    \/ gatherResourceData

VisualizerSpec == Init /\ [][VisualizerNext]_vars

\* one thread uses the registry and calls gatherResourceData
SnapshotNext ==
    \/ gather.pc = "idle" /\ Next
    \/ gatherResourceData

SnapshotSpec == Init /\ [][SnapshotNext]_vars

\* the model counts the turns of a loop up to the last instant of its clock:
\* no turn begins after it, unless it is to leave the loop
WithinHorizon == shouldStop \/ startTime <= MaxTime

\* the thread of the timer, with sleeps that end after the last instant too
TimerThreadSteps ==
    \/ \E t \in ThreadIds : LoopInit(t)
    \/ \E t \in ThreadIds : WithinHorizon /\ LoopTop(t)
    \/ \E t \in ThreadIds : Wake(t)
    \/ \E t \in ThreadIds : WakeLate(t)
    \/ \E t \in ThreadIds : Callback(t)
    \/ \E t \in ThreadIds : CallbackStopJoin(t)
    \/ \E t \in ThreadIds : Post(t)
    \/ \E t \in ThreadIds : Exit(t)

\* the timer with one thread that calls its interface and callbacks that may
\* call stop; every sleep ends, every callback returns, the threads run
TimerStopNext ==
    \/ TimerCalls({1})
    \/ TimerThreadSteps
    \/ \E t \in ThreadIds : CallbackStop(t)
    \/ Tick

TimerStopSpec ==
    /\ Init
    /\ [][TimerStopNext]_vars
    /\ WF_vars(TimerThreadSteps)
    /\ WF_vars(Tick)
    /\ WF_vars(\E c \in Callers : StopJoin(c))

\* the timer with its interface called from two threads
TimerNext == TimerCalls(Callers) \/ timerLoop \/ Tick

TimerSpec == Init /\ [][TimerNext]_vars

\* the timer with its interface called from one thread
TimerSeqNext == TimerCalls({1}) \/ timerLoop \/ Tick

TimerSeqSpec == Init /\ [][TimerSeqNext]_vars

(***************************************************************************)
(* Properties of the resource registry                                     *)
(***************************************************************************)
RemovedExactly(id) ==
    /\ DOMAIN resources' = (DOMAIN resources) \ {id}
    /\ \A i \in DOMAIN resources' : resources'[i] = resources[i]

\* C1: unregister(id) returns false and leaves the id->record map unchanged
\* when the id is unknown or the record's refcount is greater than 0; it
\* returns true and removes exactly that record when the refcount is 0.
\* Directly after register(id) it fails, after one release it succeeds.
C1_Unregister ==
    [][lastOp'.op = "unregister" =>
        LET id == lastOp'.id
        IN /\ IF Known(id) /\ resources[id].refCount = 0
              THEN lastOp'.ok /\ RemovedExactly(id)
              ELSE ~lastOp'.ok /\ resources' = resources
           /\ (lastOp.op = "register" /\ lastOp.id = id) => ~lastOp'.ok
           /\ (lastOp.op = "release" /\ lastOp.id = id /\ lastOp.before = 1)
                 => lastOp'.ok
      ]_vars

\* an unregister has just removed a record and left another one in place
C1_Witness ==
    /\ lastOp.op = "unregister"
    /\ lastOp.ok
    /\ lastOp.id \notin DOMAIN resources
    /\ DOMAIN resources # {}

\* what register, addRef and release store and return
RefCountReturns ==
    /\ lastOp.op = "register" =>
          Known(lastOp.id) /\ resources[lastOp.id].refCount = 1
    /\ (lastOp.op = "addRef" /\ lastOp.ok) =>
          /\ lastOp.val = lastOp.before + 1
          /\ resources[lastOp.id].refCount = lastOp.before + 1
    /\ (lastOp.op = "release" /\ lastOp.ok /\ lastOp.before > 0) =>
          /\ lastOp.val = lastOp.before - 1
          /\ resources[lastOp.id].refCount = lastOp.before - 1

\* C2 as stated: the refcount is 1 after register, addRef returns and stores
\* old+1, release on a positive count returns and stores old-1, and after as
\* many addRef as release calls on an id its refcount is 1 again.
C2_Original ==
    /\ RefCountReturns
    /\ \A id \in DOMAIN resources :
          refLog[id].balance = 0 => resources[id].refCount = 1

\* C2, amended: the same, for the call sequences in which no release was
\* issued while the refcount of the id was 0.
C2_Balanced ==
    /\ RefCountReturns
    /\ \A id \in DOMAIN resources :
          (refLog[id].balance = 0 /\ refLog[id].relOnZero = 0)
             => resources[id].refCount = 1

\* a release has just brought a count of 2 back to 1, with as many addRef as
\* release calls made on the id
C2_Witness ==
    /\ lastOp.op = "release"
    /\ lastOp.before = 2
    /\ Known(lastOp.id)
    /\ refLog[lastOp.id].balance = 0
    /\ refLog[lastOp.id].relOnZero = 0
    /\ resources[lastOp.id].refCount = 1

OwningGuards(id) == {g \in GuardIds : Owns(g) /\ guards[g].resourceId = id}

C9_Original ==
    [][\A id \in DOMAIN resources :
          id \notin DOMAIN resources' => resources[id].refCount = 0]_vars

\* C9, amended: unregister removes a record only when its refcount is 0;
\* clearAll is the one operation that removes referenced records, and it
\* removes every record.
C9_EraseUnreferenced ==
    [][\A id \in DOMAIN resources :
          id \notin DOMAIN resources' =>
             \/ resources[id].refCount = 0
             \/ lastOp'.op = "clearAll" /\ DOMAIN resources' = {}]_vars

\* clearAll has just removed records that still had references
C9_Witness == lastOp.op = "clearAll" /\ lastOp.val > 0 /\ DOMAIN resources = {}

\* C10: register always succeeds and returns an id greater than 0 and
\* greater than every id returned before, also after records were removed.
C10_FreshIds ==
    /\ \A i \in 1 .. Len(issued) :
          /\ issued[i] > 0
          /\ \A j \in 1 .. (i - 1) : issued[j] < issued[i]
    /\ lastOp.op = "register" =>
          lastOp.ok /\ lastOp.val = issued[Len(issued)] /\ Known(lastOp.val)

\* a register that followed the removal of an earlier record
C10_Witness ==
    /\ lastOp.op = "register"
    /\ Len(issued) >= 2
    /\ issued[1] \notin DOMAIN resources

\* C11: addRef and release on an id that is not in the registry return 0
\* and change nothing; release on a record whose refcount is 0 returns 0 and
\* leaves it at 0; no refcount is ever below 0.
C11_UnknownOrZero ==
    /\ [](\A id \in DOMAIN resources : resources[id].refCount >= 0)
    /\ [][/\ (lastOp'.op \in {"addRef", "release"} /\ ~Known(lastOp'.id)) =>
               /\ lastOp'.val = 0
               /\ resources' = resources
          /\ (/\ lastOp'.op = "release"
              /\ Known(lastOp'.id)
              /\ resources[lastOp'.id].refCount = 0) =>
               /\ lastOp'.val = 0
               /\ resources' = resources
         ]_vars

\* a release of an id that was unregistered before has returned 0, after a
\* release of a count of 0 that left another record at 0
C11_Witness ==
    /\ lastOp.op = "release"
    /\ ~lastOp.ok /\ lastOp.val = 0
    /\ \E i \in 1 .. Len(issued) : issued[i] = lastOp.id
    /\ \E id \in DOMAIN resources :
          resources[id].refCount = 0 /\ refLog[id].relOnZero >= 1

AllJoined == \A w \in Workers : worker[w].pc = "joined"

\* the ids a thread has obtained so far
Obtained(w) ==
    {worker[w].got[i] : i \in 1 .. Len(worker[w].got)}
        \cup (IF worker[w].pc \in {"addRef", "setInUse", "release"}
              THEN {worker[w].id} ELSE {})

\* C12: when threads register concurrently and call addRef, setInUse and
\* release on each id they obtained, no id is handed out twice, and after
\* all threads are joined count() is the number of register calls and every
\* record has refcount 1.
C12_ThreadSafety ==
    /\ \A w \in Workers :
          /\ \A v \in Workers \ {w} : Obtained(w) \cap Obtained(v) = {}
          /\ \A i, j \in 1 .. Len(worker[w].got) :
                i # j => worker[w].got[i] # worker[w].got[j]
          /\ worker[w].pc \in {"addRef", "setInUse", "release"} =>
                \A i \in 1 .. Len(worker[w].got) : worker[w].got[i] # worker[w].id
    /\ AllJoined =>
          /\ Cardinality(DOMAIN resources) = Len(issued)
          /\ DOMAIN resources = UNION {Obtained(w) : w \in Workers}
          /\ \A id \in DOMAIN resources :
                resources[id].refCount = 1 /\ resources[id].inUse

\* all threads are joined and two of them have registered resources
C12_Witness ==
    /\ AllJoined
    /\ \E w \in Workers, v \in Workers :
          w # v /\ Len(worker[w].got) >= 1 /\ Len(worker[v].got) >= 1
    /\ Len(issued) = MaxResources

(***************************************************************************)
(* Properties of the event dispatcher                                      *)
(***************************************************************************)
\* the subscriptions of a key that have a handler, in registration order
Subscribed(d, key) ==
    SelectSeq(regOrder, LAMBDA id : /\ id \in DOMAIN callbacks[d]
                                    /\ callbacks[d][id].key = key
                                    /\ callbacks[d][id].callback # Empty)

ExpectedCalls(d, key) ==
    [i \in 1 .. Len(Subscribed(d, key)) |->
        [id |-> Subscribed(d, key)[i],
         fn |-> callbacks[d][Subscribed(d, key)[i]].callback]]

IsPrefix(a, b) == Len(a) <= Len(b) /\ \A i \in 1 .. Len(a) : a[i] = b[i]

\* C3: an invoke(key) during which no subscription of its domain changes
\* calls exactly the handlers subscribed to that key, each once, in the
\* order of their registration, whatever registrations and removals came
\* before; in the GPIO and in the Timer domain.
C3_InvokeOrder ==
    \A t \in Invokers :
        (invoker[t].pc # "idle" /\ ~invoker[t].dirty) =>
            /\ IsPrefix(invoker[t].calls, ExpectedCalls(invoker[t].dom, invoker[t].key))
            /\ invoker[t].pc = "done" =>
                  invoker[t].calls = ExpectedCalls(invoker[t].dom, invoker[t].key)

\* an undisturbed invoke has called two handlers of its key, after a
\* subscription registered between them was removed
C3_Witness ==
    \E t \in Invokers :
        /\ invoker[t].pc = "done"
        /\ ~invoker[t].dirty
        /\ Len(invoker[t].calls) = 2
        /\ invoker[t].calls[1].id + 1 < invoker[t].calls[2].id
        /\ \A d \in Domains : invoker[t].calls[1].id + 1 \notin DOMAIN callbacks[d]
        /\ clearPc = "idle"

\* the subscription an invocation is about to call, is calling or has called last
Current(t) == invoker[t].callbackIds[invoker[t].idx]

\* C13: whenever a handler is executing the invoking thread holds no lock
\* of the dispatcher, of either domain, so that the register, unregister,
\* invoke and clearAll calls of the handler get their locks and the outer
\* invoke goes on; a lock is held only from the lookup of a handler to the
\* unlock that comes before its call.
C13_NoLockInHandler ==
    /\ \A t \in Invokers, d \in Domains :
          t \in sharedMutex[d] => invoker[t].pc = "copied" /\ invoker[t].dom = d
    /\ UserCode => \A d \in Domains : CanLockUnique(d)

\* the handler of a nested invoke is executing inside a handler that has
\* changed the subscriptions and has called clearAll
C13_Witness ==
    /\ invoker[1].pc = "running"
    /\ invoker[2].pc = "running"
    /\ invoker[1].dirty
    /\ clearMark > 1

\* C14: once unregister(id) has returned true no invoke, on any thread,
\* begins to execute the handler of that subscription.  (A subscription that
\* is missing from its table and was issued after the last clearAll began
\* was removed by an unregister that returned true.)
C14_NoCallAfterUnregister ==
    [][\A t \in Invokers :
          (invoker[t].pc = "call" /\ invoker'[t].pc = "running"
              /\ Current(t) >= clearMark)
             => Current(t) \in DOMAIN callbacks[invoker[t].dom]]_vars

\* C15: when a handler B unregisters, during invoke(key), a subscription A
\* of the same key that comes after it, the invoke in flight does not call
\* A and runs to its end, and a later invoke(key) does not find A: every
\* handler is still subscribed at the moment it is called, the calls follow
\* the snapshot, and a snapshot holds subscribed ids only.
C15_UnregisterInHandler ==
    \A t \in Invokers :
        /\ invoker[t].pc \in {"copied", "call"} => Callable(invoker[t].dom, Current(t))
        /\ \A i \in 1 .. Len(invoker[t].calls) :
              \E j \in 1 .. invoker[t].idx :
                 j <= Len(invoker[t].callbackIds)
                    /\ invoker[t].callbackIds[j] = invoker[t].calls[i].id
        /\ (invoker[t].pc = "loop" /\ invoker[t].idx = 1 /\ ~invoker[t].dirty) =>
              \A i \in 1 .. Len(invoker[t].callbackIds) :
                 invoker[t].callbackIds[i] \in DOMAIN callbacks[invoker[t].dom]

\* an invoke of a key with the subscriptions B and A has ended after it
\* called B only, A having been unregistered while B was executing
C15_Witness ==
    /\ clearMark = 1
    /\ invoker[2].pc = "idle"
    /\ invoker[1].pc = "done"
    /\ Len(invoker[1].callbackIds) = 2
    /\ Len(invoker[1].calls) = 1
    /\ invoker[1].calls[1].id = invoker[1].callbackIds[1]
    /\ invoker[1].callbackIds[2] \notin DOMAIN callbacks[invoker[1].dom]

\* C16: unregisterGPIOCallback and unregisterTimerCallback return true
\* exactly when the id is subscribed in their domain, and then remove it
\* from that domain only; for any other id (never issued, unregistered
\* before, or of the other domain) they return false and leave both
\* tables as they are.
C16_UnregisterResult ==
    [][lastUnregister' # NoUnregister =>
          LET d == lastUnregister'.dom
              id == lastUnregister'.id
          IN /\ lastUnregister'.ok <=> id \in DOMAIN callbacks[d]
             /\ ~lastUnregister'.ok =>
                   callbacks' = callbacks /\ callbacksByKey' = callbacksByKey
             /\ lastUnregister'.ok =>
                   /\ DOMAIN callbacks'[d] = (DOMAIN callbacks[d]) \ {id}
                   /\ \A e \in Domains \ {d} :
                         /\ callbacks'[e] = callbacks[e]
                         /\ callbacksByKey'[e] = callbacksByKey[e]
      ]_vars

\* an unregister of the Timer domain has returned false for an id that is
\* subscribed in the GPIO domain
C16_Witness ==
    /\ lastUnregister.dom = "timer"
    /\ ~lastUnregister.ok
    /\ lastUnregister.id \in DOMAIN callbacks["gpio"]

\* C17: after clearAll has returned no table holds a subscription that was
\* registered before it, an invoke on a key of either domain takes and
\* calls none of them, and unregister of such an id returns false.
C17_ClearAll ==
    /\ clearPc = "idle" =>
          \A d \in Domains : \A id \in DOMAIN callbacks[d] : id >= clearMark
    /\ \A t \in Invokers :
          /\ \A i \in 1 .. Len(invoker[t].callbackIds) :
                invoker[t].callbackIds[i] >= clearMark
          /\ \A i \in 1 .. Len(invoker[t].calls) :
                invoker[t].calls[i].id >= clearMark
    /\ lastUnregister.ok => lastUnregister.id >= clearMark

\* after a clearAll that removed two subscriptions, an unregister of one of
\* them has returned false
C17_Witness ==
    /\ clearMark = 3
    /\ clearPc = "idle"
    /\ lastUnregister # NoUnregister
    /\ lastUnregister.id < clearMark
    /\ ~lastUnregister.ok

AllDone == \A t \in Invokers : invoker[t].pc = "done"

\* C18: when threads register concurrently and, after they are joined,
\* threads invoke concurrently, no subscription is lost and the ids are
\* pairwise distinct: every invoke calls each handler of its key once.
C18_ConcurrentFanout ==
    /\ \A i, j \in 1 .. Len(regOrder) : i # j => regOrder[i] # regOrder[j]
    /\ \A i \in 1 .. Len(regOrder) :
          Cardinality({d \in Domains : regOrder[i] \in DOMAIN callbacks[d]}) = 1
    /\ \A t \in Invokers :
          /\ invoker[t].pc # "idle" =>
                IsPrefix(invoker[t].calls, ExpectedCalls(invoker[t].dom, invoker[t].key))
          /\ invoker[t].pc = "done" =>
                invoker[t].calls = ExpectedCalls(invoker[t].dom, invoker[t].key)

\* two threads have invoked the same key at the same time and each of them
\* has called its two handlers
C18_Witness ==
    /\ AllDone
    /\ \A t \in Invokers :
          /\ invoker[t].dom = invoker[1].dom /\ invoker[t].key = invoker[1].key
          /\ Len(invoker[t].calls) = 2

\* C19: at most one watcher thread is alive for a pin at any time; setInterrupt
\* on a pin that has a watcher never creates a second thread, and never
\* replaces the thread object while the previous watcher is running.
C19_OneWatcherPerPin ==
    \A p \in Pins : Cardinality(WatchersOf(p)) <= 1

\* C20: when ~GPIOLinux has left its join loop every watcher that was ever
\* started has been joined, the shutdown flag is set, and no watcher is alive
\* or inside the dispatcher while the pins are cleaned up and destroyed.
C20_JoinBeforeFree ==
    destructor.pc \in {"cleanup", "destroyed"} =>
        /\ shutdownRequested
        /\ ~terminated
        /\ \A w \in WatcherIds :
              /\ watcher[w].pc \in {"unborn", "joined"}
              /\ invoker[w].pc = "idle"

\* the backend is destroyed after it joined the watchers of two pins, one of
\* them still subscribed
C20_Witness ==
    /\ destructor.pc = "destroyed"
    /\ Cardinality({w \in WatcherIds : watcher[w].pc = "joined"}) >= 2
    /\ \E p \in DOMAIN pins : pins[p].callbackId # 0
    /\ destructor.cleaned = Pins

C22_StopJoins ==
    /\ [][\A c \in Clients :
            StopReturn(c) =>
                /\ EngineAlive' = {}
                /\ worker_' = 0
                /\ StateOf' = "STOPPED"]_vars
    /\ [][\A c \in Clients :
            (getState(c) /\ ~running_) => client'[c].state = "STOPPED"]_vars
    /\ [][(~running_ /\ running_') => \E c \in Clients : HALStateEngine_start(c)]_vars
    /\ [][\A c \in Clients :
            (HALStateEngine_stop(c) /\ ~running_) =>
                /\ UNCHANGED <<running_, stopRequested_, worker_, engineThreads,
                               nextEngineThread>>
                /\ client'[c] = Answer("stop", FALSE)]_vars

\* stop has returned after it joined a thread that had entered its loop, and
\* a getState that followed has reported Stopped
C22_Witness ==
    \E c \in Clients, d \in Clients, w \in EngineThreadIds :
        /\ client[c].pc = "idle" /\ client[c].op = "stop" /\ client[c].ok
        /\ client[d].pc = "idle" /\ client[d].op = "getState"
        /\ client[d].state = "STOPPED"
        /\ engineThreads[w].pc = "joined"
        /\ \E k \in KindSet : device[w][k].registered # 0
        /\ ~running_

\* C23: waitForStop returns only when a stop has been requested, and a
\* waitForStop that is blocked when stop is called on the running engine
\* returns in the end, whatever calls of start and stop follow.
C23_WaitReturns ==
    /\ [][\A c \in Clients :
            (client'[c].op = "waitForStop" /\ client[c] # client'[c]) =>
                stopRequested_]_vars
    /\ \A c \in Clients :
          (client[c].pc = "notified") ~>
              (client[c].pc = "idle" /\ client[c].op = "waitForStop")

\* the state of the engine: Idle until the first start, Running from a start
\* until stop has completed, Stopped after that
ExpectedState ==
    IF nextEngineThread = 1 THEN "IDLE"
    ELSE IF running_ THEN "RUNNING" ELSE "STOPPED"

\* C24: getState reports Idle from construction until the first start,
\* Running from start until stop has completed, and Stopped afterwards.
C24_StateOrder ==
    [][\A c \in Clients : getState(c) => client'[c].state = ExpectedState]_vars

\* C25: setInterval returns false and leaves the interval as it is while the
\* timer is running; while it is not running it returns true and getInterval
\* returns the new interval.
C25_SetInterval ==
    [][\A c \in Callers, i \in Intervals :
          setInterval(c, i) =>
              IF running
              THEN /\ caller'[c] = Returned("setInterval", FALSE)
                   /\ getInterval' = getInterval
              ELSE /\ caller'[c] = Returned("setInterval", TRUE)
                   /\ getInterval' = i]_vars

\* setInterval was refused while the thread of the timer is alive, and the
\* interval of the timer is still the one it was started with
C25_Witness ==
    \E c \in Callers :
        /\ caller[c].pc = "idle" /\ caller[c].op = "setInterval" /\ ~caller[c].ok
        /\ running
        /\ AliveThreads # {}
        /\ getInterval = 1

\* C26: stop on a timer that is not running (never started, stopped, or a
\* one-shot timer that has completed) returns false and changes nothing;
\* stop returns true only when the timer was running when it was called.
C26_StopNotRunning ==
    [][\A c \in Callers :
          (stop(c) /\ ~running) =>
              /\ caller'[c] = Returned("stop", FALSE)
              /\ UNCHANGED <<mode, intervalUs, running, timerThread, callback,
                             startTime, threads>>]_vars

\* C27: getElapsedUs is the time since the last start or reset: it is 0 when
\* the thread of a start records its reference instant and when reset
\* returns, and at every other step it grows exactly as the clock does.
C27_ElapsedSinceStart ==
    [][IF (\E t \in ThreadIds : LoopInit(t)) \/ (\E c \in Callers : ResetFinish(c))
       THEN getElapsedUs' = 0
       ELSE getElapsedUs' - getElapsedUs = now' - now]_vars

\* C28: once a backend that registered a resource has been destroyed the
\* registry holds no record of the id it registered.
C28_TeardownReleases ==
    \A o \in Owners, k \in KindSet :
        device[o][k].pc = "destroyed" => device[o][k].registered \notin DOMAIN resources

\* C29: a call that fails leaves everything as it was: a setInterrupt that
\* returns false changes neither the records of the registry, nor the
\* subscriptions of the dispatcher, nor the pin table.
C29_FailureChangesNothing ==
    [][\A p \in Pins, cb \in Handlers, fail \in Failures \ {"none"} :
          setInterrupt(p, cb, fail) =>
              UNCHANGED <<resources, callbacks, callbacksByKey, pins>>]_vars

\* C30: in PERIODIC mode the deadline of a turn is the deadline of the turn
\* before plus the interval, the first one the reference instant plus the
\* interval, whatever the clock shows when the deadline is computed.
C30_NoDrift ==
    [][\A t \in ThreadIds :
          (LoopTop(t) /\ ~shouldStop /\ mode = "PERIODIC") =>
              /\ threads'[t].wakeAt = threads'[t].nextTick
              /\ threads'[t].nextTick =
                    (IF threads[t].nextTick = 0 THEN startTime ELSE threads[t].nextTick)
                        + intervalUs]_vars

\* a thread sleeps until its second deadline, which it computed when the
\* clock was past the first one
C30_Witness ==
    \E t \in ThreadIds :
        /\ threads[t].pc = "sleep"
        /\ mode = "PERIODIC"
        /\ threads[t].fired >= 1
        /\ threads[t].wakeAt = startTime + intervalUs
        /\ threads[t].wakeAt < now + intervalUs

(***************************************************************************)
(* Properties of the timer engine                                          *)
(***************************************************************************)
AliveAfter == {t \in ThreadIds : Alive(threads'[t])}

\* C4: start on a running timer returns false, creates no thread and leaves
\* interval and callback as they are; under any interleaving of start calls,
\* two start calls racing on an idle timer included, at most one timer
\* thread is alive at any time.
C4_StartWhileRunning ==
    /\ [](Cardinality(AliveThreads) <= 1)
    /\ [][\A c \in Callers :
            (caller[c].pc = "refused" /\ caller'[c].pc = "idle") =>
                /\ caller'[c].op = "start" /\ ~caller'[c].ok
                /\ threads' = threads /\ nextThread' = nextThread
                /\ intervalUs' = intervalUs /\ callback' = callback]_vars

\* the thread of the last start ran as a one-shot, was not told to stop and
\* has left timerLoop
CompletedOneShot ==
    /\ timerThread # 0
    /\ threads[timerThread].pc = "done"
    /\ threads[timerThread].oneShot
    /\ ~threads[timerThread].stopSeen
    /\ threads[timerThread].fired = 1
    /\ ~running

\* C5: a timer started in OneShot mode with a callback invokes it once and
\* never a second time; without any stop() its thread leaves the loop with
\* the callback invoked exactly once and the running flag false.
C5_OneShotFiresOnce ==
    \A t \in ThreadIds :
        threads[t].oneShot =>
            /\ threads[t].fired <= 1
            /\ (threads[t].pc = "done" /\ ~threads[t].stopSeen /\ ~crashed) =>
                  /\ ~running
                  /\ threads[t].armed => threads[t].fired = 1

\* a one-shot thread has fired once and ended by itself, and time went on
C5_Witness ==
    \E t \in ThreadIds :
        /\ threads[t].pc = "done"
        /\ threads[t].oneShot /\ threads[t].armed /\ ~threads[t].stopSeen
        /\ threads[t].fired = 1
        /\ ~running /\ ~crashed
        /\ now = MaxTime

\* C6: after a one-shot timer has completed naturally, a start with no stop
\* in between returns true and runs exactly one new timer thread.
C6_RestartAfterOneShot ==
    [][\A c \in Callers :
          (caller[c].pc = "starting" /\ caller'[c].pc # "starting" /\ CompletedOneShot) =>
              /\ caller'[c].op = "start" /\ caller'[c].ok
              /\ ~crashed'
              /\ AliveAfter = {timerThread'}]_vars

\* C7: stop on a running timer sets the stop flag and returns only after the
\* timer thread has exited; once it has returned the running flag is false
\* and no thread is left that could invoke the callback.
C7_StopJoins ==
    \A c \in Callers :
        (caller[c].pc = "idle" /\ caller[c].op = "stop" /\ caller[c].ok) =>
            /\ shouldStop
            /\ AliveThreads = {}
            /\ timerThread = 0
            /\ ~running

\* stop has returned true after it stopped and joined a thread that was
\* running when it was called
C7_Witness ==
    \E c \in Callers, t \in ThreadIds :
        /\ caller[c].pc = "idle" /\ caller[c].op = "stop" /\ caller[c].ok
        /\ threads[t].pc = "joined"
        /\ threads[t].stopSeen
        /\ ~running

\* C31: the thread of the timer holds callbackMutex only while it reads the
\* stored callback: it holds it neither while it sleeps nor while the
\* callback is executing.
C31_LockAroundReadOnly ==
    \A t \in ThreadIds :
        threads[t].pc \in {"sleep", "cb"} => callbackMutex # t

\* the ids of a sequence
Ids(s) == {s[i] : i \in 1 .. Len(s)}

\* the subscriptions an invocation has called
Called(t) == {invoker[t].calls[i].id : i \in 1 .. Len(invoker[t].calls)}

\* the subscriptions of the key of an invocation that are not in its
\* snapshot: they were registered after the snapshot was taken
Latecomers(t) ==
    {id \in DOMAIN callbacks[invoker[t].dom] :
        /\ callbacks[invoker[t].dom][id].key = invoker[t].key
        /\ id \notin Ids(invoker[t].callbackIds)}

\* what holds of an invocation that is in flight
FollowsSnapshot(t) ==
    invoker[t].pc # "idle" =>
        /\ Called(t) \subseteq Ids(invoker[t].callbackIds)
        /\ Called(t) \cap Latecomers(t) = {}
        /\ invoker[t].pc = "done" =>
              \A id \in Ids(invoker[t].callbackIds) :
                  Callable(invoker[t].dom, id) => id \in Called(t)

\* C32: a change of the subscriptions made while an invoke(key) is in flight
\* takes effect for the next invoke only: the invoke in flight calls no
\* handler that was registered for its key after it took its snapshot; the
\* snapshot of every invoke(key) holds all the subscriptions its key has at
\* that moment, and an invoke ends having called every handler of its
\* snapshot that is still subscribed.
C32_NextInvokeOnly ==
    [][\A t \in Invokers :
          /\ FollowsSnapshot(t)'
          /\ (invoker[t].pc = "idle" /\ invoker'[t].pc # "idle") =>
                \A id \in DOMAIN callbacks[invoker'[t].dom] :
                    callbacks[invoker'[t].dom][id].key = invoker'[t].key
                        => id \in Ids(invoker'[t].callbackIds)]_vars

\* an invoke has ended after it called the one handler of its snapshot,
\* while a handler registered for its key after the snapshot was taken is
\* subscribed and was not called
C32_Witness ==
    /\ invoker[1].pc = "done"
    /\ Len(invoker[1].calls) = 1
    /\ \E id \in Latecomers(1) : Callable(invoker[1].dom, id)

\* C33: no reader observes a record that is being or has been destroyed:
\* whenever a caller reads through the pointer getResourceInfo gave it, the
\* record it points to is still in the registry, whatever unregister and
\* clearAll calls other threads make.
C33_NoStaleRecord ==
    [][Gather_read => Known(gather.info)]_vars

\* the entries of a snapshot
Entries(usages) == {usages[i] : i \in 1 .. Len(usages)}

\* C40: a snapshot gatherResourceData has produced, after any sequence of
\* register, unregister and clearAll calls, has exactly one entry for every
\* registered resource, with its id, reference count and inUse flag, and no
\* entry for any other id.
C40_SnapshotComplete ==
    gather.pc = "done" =>
        /\ Len(resourceUsages_) = Cardinality(DOMAIN resources)
        /\ Entries(resourceUsages_) =
              {[id |-> id, refCount |-> resources[id].refCount,
                inUse |-> resources[id].inUse] : id \in DOMAIN resources}

\* the ids of a list are all different
NoDuplicates(s) == \A i, j \in 1 .. Len(s) : s[i] = s[j] => i = j

\* C34: in every state of the dispatcher a subscription id is in at most
\* one of the two tables and at most once in the list of its key; the lists
\* and the table of a domain agree: an id is in the list of key k exactly
\* when the table holds it with key k; and no key has an empty list.
C34_TablesAgree ==
    /\ DOMAIN callbacks["gpio"] \cap DOMAIN callbacks["timer"] = {}
    /\ \A d \in Domains :
          /\ \A k \in DOMAIN callbacksByKey[d] :
                /\ callbacksByKey[d][k] # << >>
                /\ NoDuplicates(callbacksByKey[d][k])
                /\ \A id \in Ids(callbacksByKey[d][k]) :
                      id \in DOMAIN callbacks[d] /\ callbacks[d][id].key = k
          /\ \A id \in DOMAIN callbacks[d] :
                /\ callbacks[d][id].key \in DOMAIN callbacksByKey[d]
                /\ id \in Ids(callbacksByKey[d][callbacks[d][id].key])

\* both tables hold a subscription, and the third one issued, the only one
\* of its key, has been unregistered
C34_Witness ==
    /\ nextCallbackId = 4
    /\ 1 \in DOMAIN callbacks["gpio"]
    /\ 2 \in DOMAIN callbacks["timer"]
    /\ \A d \in Domains : 3 \notin DOMAIN callbacks[d]
    /\ Cardinality(DOMAIN callbacksByKey["gpio"]) = 1
    /\ clearMark = 1

\* the registry with the inUse flag of every record cleared
WithoutInUse(res) == [i \in DOMAIN res |-> [res[i] EXCEPT !.inUse = FALSE]]

\* C35: inUse is advisory only.  setInUse(id, b) changes the inUse flag of
\* that record and nothing else, and nothing at all when the id is unknown;
\* what addRef, release and unregister return and do to the reference
\* counts and to the set of records is decided by the reference counts
\* alone; a record with inUse true and reference count 0 is unregistered.
C35_InUseAdvisory ==
    [][\A id \in ResourceIds :
          /\ \A b \in BOOLEAN :
                (lastOp'.op = "setInUse" /\ lastOp'.id = id /\ setInUse(id, b)) =>
                    /\ DOMAIN resources' = DOMAIN resources
                    /\ \A i \in DOMAIN resources :
                          /\ resources'[i].refCount = resources[i].refCount
                          /\ resources'[i].inUse = IF i = id THEN b ELSE resources[i].inUse
                    /\ UNCHANGED <<nextResourceId, guards>>
          /\ (lastOp'.op = "unregister" /\ lastOp'.id = id /\ unregisterResource(id)) =>
                /\ lastOp'.ok = (Known(id) /\ resources[id].refCount = 0)
                /\ resources' = IF lastOp'.ok THEN Erase(resources, id) ELSE resources
          /\ (lastOp'.op = "addRef" /\ lastOp'.id = id /\ addRef(id)) =>
                /\ lastOp'.val = IF Known(id) THEN resources[id].refCount + 1 ELSE 0
                /\ WithoutInUse(resources') =
                      WithoutInUse(IF Known(id)
                                   THEN [resources EXCEPT ![id].refCount = @ + 1]
                                   ELSE resources)
                /\ \A i \in DOMAIN resources : resources'[i].inUse = resources[i].inUse
          /\ (lastOp'.op = "release" /\ lastOp'.id = id /\ release(id)) =>
                /\ lastOp'.val = IF Known(id) /\ resources[id].refCount > 0
                                 THEN resources[id].refCount - 1 ELSE 0
                /\ WithoutInUse(resources') =
                      WithoutInUse(IF Known(id) /\ resources[id].refCount > 0
                                   THEN [resources EXCEPT ![id].refCount = @ - 1]
                                   ELSE resources)
                /\ \A i \in DOMAIN resources : resources'[i].inUse = resources[i].inUse]_vars

\* a record that is marked as used by the last call has no reference left,
\* beside a record that has one
C35_Witness ==
    /\ lastOp.op = "setInUse"
    /\ \E id \in DOMAIN resources : resources[id].inUse /\ resources[id].refCount = 0
    /\ \E id \in DOMAIN resources : ~resources[id].inUse /\ resources[id].refCount = 1

\* C36: every stop() of a running timer returns in the end, when every sleep
\* and every callback ends: a thread that is waiting in the join of stop,
\* be it a thread of the program or the thread of the timer, whose callback
\* called stop, gets out of it.
C36_StopReturns ==
    /\ \A c \in Callers : (caller[c].pc = "joining") ~> (caller[c].pc # "joining")
    /\ \A t \in ThreadIds : (threads[t].pc = "selfstop") ~> (threads[t].pc # "selfstop")

\* C37: the thread of a watcher waits for an edge with a timeout, calls
\* invokeGPIOCallback(pin, value) once for an edge it detected, and tests
\* the shutdown flag again.  It leaves the loop only when it has seen the
\* flag, and once the flag is set every watcher exits, after its current
\* wait and the delivery to the handlers at the latest.
C37_WatcherLoop ==
    /\ [](\A w \in WatcherIds :
            invoker[w].pc # "idle" =>
                /\ watcher[w].pc = "invoke"
                /\ invoker[w].dom = "gpio"
                /\ invoker[w].key = watcher[w].pin)
    /\ [][\A w \in WatcherIds :
            /\ (watcher[w].pc \in {"loop", "poll", "invoke"} /\ ~Watching(w)') =>
                  shutdownRequested /\ watcher[w].pc = "loop"
            /\ (watcher[w].pc = "poll" /\ watcher'[w].pc = "invoke") =>
                  invoker[w].pc = "idle" /\ invoker'[w].pc # "idle"
            /\ (watcher[w].pc = "invoke" /\ watcher'[w].pc # "invoke") =>
                  watcher'[w].pc = "loop"]_vars
    /\ \A w \in WatcherIds : shutdownRequested ~> ~Watching(w)

\* the flag is set while one watcher is calling a handler for an edge it
\* detected, and another watcher has left its loop
C37_Witness ==
    /\ shutdownRequested
    /\ \E w \in WatcherIds : watcher[w].pc = "invoke" /\ invoker[w].pc = "running"
    /\ \E w \in WatcherIds : watcher[w].pc = "done"

\* C38: after removeInterrupt(pin) has returned true no handler registered
\* through setInterrupt on that pin is subscribed in the dispatcher, however
\* many times setInterrupt was called on the pin; and none is subscribed
\* once the backend is destroyed.
C38_RemoveUnsubscribes ==
    /\ \A p \in DOMAIN pins :
          ~pins[p].interruptActive => p \notin DOMAIN callbacksByKey["gpio"]
    /\ destructor.pc = "destroyed" => callbacksByKey["gpio"] = << >>

\* C39: when two threads call stop at once on a running engine the thread
\* of the engine is joined once: no two callers are in worker_.join() on the
\* same thread, no caller joins a thread that was joined already, and the
\* process is not terminated.
C39_JoinedOnce ==
    /\ ~engineTerminated
    /\ \A c \in Clients :
          client[c].pc = "joining" =>
              /\ worker_ = client[c].target
              /\ \A d \in Clients \ {c} :
                    ~(client[d].pc = "joining" /\ client[d].target = client[c].target)

====
